---- MODULE Spec2Model ----
(***************************************************************************)
(* Model of the demand-priority recommendation and redistribution engine:  *)
(*   - DynamicSupervisionSession (backend/core/dynamic_supervisor.py)      *)
(*   - TieredRecommendationSystem (backend/routes/recommended_order.py)    *)
(*                                                                         *)
(* Scaling of the floating point attributes: probability is kept in        *)
(* percent (ProbabilityPercent, the code divides by 100) and urgency_score *)
(* in tenths; both are only compared, so the order is the code's order.    *)
(***************************************************************************)
EXTENDS Integers, Sequences, FiniteSets, TLC

(***************************************************************************)
(* Bounds of the model.                                                    *)
(***************************************************************************)
MaxQty == 4
MaxSold == 2
MaxVisits == 2
MaxStock == 5
MaxAvgHalves == 8
MaxLoad == 4
MaxClients == 2
MaxObjects == 2

Items == {"X", "Y"}
UnknownCustomer == "zz"

Min(a, b) == IF a < b THEN a ELSE b
Max(a, b) == IF a > b THEN a ELSE b

EmptyMap == [k \in {} |-> 0]

\* dict.get(key, default)
Get(d, k, default) == IF k \in DOMAIN d THEN d[k] ELSE default

\* round(n / d) for n >= 0, d > 0: to the nearest, ties to the even one.
RoundHalfEven(n, d) ==
  LET q == n \div d
      r == n % d
  IN  IF 2 * r < d THEN q
      ELSE IF 2 * r > d THEN q + 1
      ELSE IF q % 2 = 0 THEN q ELSE q + 1

RECURSIVE SumSeq(_)
SumSeq(s) == IF s = <<>> THEN 0 ELSE Head(s) + SumSeq(Tail(s))

VARIABLES
  customer_recommendations, \* {customer_code: CustomerRecommendations}
  custOrder,                \* insertion order of customer_recommendations
  van_inventory,            \* {item_code: available_quantity}
  visited_customers,        \* set of customer codes
  adjustments,              \* {customer_code: {item_code: adjustment}}
  redistribution_log,       \* list of visit entries
  result,                   \* what the last session call returned
  pc,                       \* where a generation run stands
  van_items,                \* {item_code: Predicted} of the target date
  demand_items,             \* the item codes of the demand rows, as loaded
  journey_customers,        \* the scheduled customers, as loaded
  customer_df,              \* {customer: {item: metrics}} of the history
  df,                       \* the candidate rows before the capacity pass
  recommendations,          \* what the generation run returned
  requests,                 \* {client: visit request and its response}
  active_sessions,          \* {session_key: number of the session object}
  objects,                  \* number of session objects created so far
  call,                     \* the call under way or last made, and its return
  market_benchmark_cache,   \* PriorityCalculator._market_benchmark_cache
  market_benchmark_date,    \* PriorityCalculator._market_benchmark_date
  tbl_recommended_orders,   \* the stored rows, one record per saved batch
  now                       \* the clock generated_at is read from

sessVars == <<customer_recommendations, custOrder, van_inventory,
              visited_customers, adjustments, redistribution_log, result>>

genVars == <<pc, van_items, demand_items, journey_customers, customer_df, df,
             recommendations>>

srvVars == <<requests, active_sessions, objects>>

scorerVars == <<call, market_benchmark_cache, market_benchmark_date>>

storeVars == <<tbl_recommended_orders, now>>

vars == <<sessVars, genVars, srvVars, scorerVars, storeVars>>

(***************************************************************************)
(* ItemRecommendation / CustomerRecommendations                            *)
(***************************************************************************)
ItemRecommendation(item_code, recommended_quantity, tier, probability, urgency_score) ==
  [item_code |-> item_code,
   recommended_quantity |-> recommended_quantity,
   adjustment |-> 0,
   tier |-> tier,
   probability |-> probability,
   urgency_score |-> urgency_score]

\* CustomerRecommendations.__init__: items is the insertion-ordered dict,
\* kept as the sequence of its values (keys are the item codes).
CustomerRecommendations(customer_code) ==
  [customer_code |-> customer_code,
   items |-> <<>>,
   visited |-> FALSE,
   actual_sales |-> EmptyMap]

ItemIndex(items, item_code) ==
  IF \E k \in 1..Len(items) : items[k].item_code = item_code
  THEN CHOOSE k \in 1..Len(items) : items[k].item_code = item_code
  ELSE 0

HasItem(customer_rec, item_code) == ItemIndex(customer_rec.items, item_code) # 0

ItemOf(customer_rec, item_code) ==
  customer_rec.items[ItemIndex(customer_rec.items, item_code)]

\* CustomerRecommendations.add_item: self.items[item_code] = item_rec
add_item(customer_rec, item_rec) ==
  LET k == ItemIndex(customer_rec.items, item_rec.item_code) IN
    IF k = 0
    THEN [customer_rec EXCEPT !.items = Append(@, item_rec)]
    ELSE [customer_rec EXCEPT !.items[k] = item_rec]

(***************************************************************************)
(* DynamicSupervisionSession.initialize_from_recommendations               *)
(* A row of the recommendation dataframe is a record; the columns          *)
(* ProbabilityPercent and UrgencyScore may be missing (row.get defaults).  *)
(***************************************************************************)
DefaultProbabilityPercent == 50
DefaultUrgencyScore == 5

RowItem(row) ==
  ItemRecommendation(row.ItemCode, row.RecommendedQuantity,
                     Get(row, "Tier", "CONSIDER"),
                     Get(row, "ProbabilityPercent", DefaultProbabilityPercent),
                     Get(row, "UrgencyScore", DefaultUrgencyScore))

\* One iteration of the loop over recommendations_df.iterrows(); st holds
\* customer_recommendations (cr), its key order (order) and van_inventory (van).
InitRow(st, row) ==
  LET customer_code == row.CustomerCode
      isNew == customer_code \notin DOMAIN st.cr
      cr1 == IF isNew
             THEN st.cr @@ (customer_code :> CustomerRecommendations(customer_code))
             ELSE st.cr
      cr2 == [cr1 EXCEPT ![customer_code] = add_item(@, RowItem(row))]
      item_code == row.ItemCode
      van1 == IF item_code \notin DOMAIN st.van
              THEN st.van @@ (item_code :> 0)
              ELSE st.van
  IN [cr |-> cr2,
      order |-> IF isNew THEN Append(st.order, customer_code) ELSE st.order,
      van |-> [van1 EXCEPT ![item_code] = @ + row.RecommendedQuantity]]

RECURSIVE InitRows(_, _, _)
InitRows(st, rows, k) ==
  IF k > Len(rows) THEN st ELSE InitRows(InitRow(st, rows[k]), rows, k + 1)

initialize_from_recommendations(recommendations_df) ==
  LET st == InitRows([cr |-> customer_recommendations, order |-> custOrder,
                      van |-> van_inventory], recommendations_df, 1)
  IN /\ customer_recommendations' = st.cr
     /\ custOrder' = st.order
     /\ van_inventory' = st.van
     /\ adjustments' = [c \in DOMAIN st.cr |-> EmptyMap]
     /\ result' = [kind |-> "initialized", value |-> TRUE]
     /\ UNCHANGED <<visited_customers, redistribution_log>>

(***************************************************************************)
(* DynamicSupervisionSession._redistribute_items                           *)
(***************************************************************************)
TopRecipients == 5

\* Mutant: a tier without a rank is served first.
tier_priority_unranked_first(tier) ==
  CASE tier = "MUST_STOCK" -> 4
    [] tier = "SHOULD_STOCK" -> 3
    [] tier = "CONSIDER" -> 2
    [] tier = "MONITOR" -> 1
    [] OTHER -> 5

\* tier_priority.get(x['tier'], 0)
tier_priority(tier) ==
  CASE tier = "MUST_STOCK" -> 4
    [] tier = "SHOULD_STOCK" -> 3
    [] tier = "CONSIDER" -> 2
    [] tier = "MONITOR" -> 1
    [] OTHER -> 0

\* The sort key (tier, probability, urgency), compared as Python tuples.
KeyLess(a, b) ==
  \/ tier_priority(a.tier) < tier_priority(b.tier)
  \/ /\ tier_priority(a.tier) = tier_priority(b.tier)
     /\ \/ a.probability < b.probability
        \/ /\ a.probability = b.probability
           /\ a.urgency_score < b.urgency_score

RemoveAt(s, i) == SubSeq(s, 1, i - 1) \o SubSeq(s, i + 1, Len(s))

\* Mutant: the eligible customers are not sorted.
SortByPriority_unsorted(s) == s

\* list.sort(key=..., reverse=True): descending and stable (elements with
\* equal keys keep their original order).
RECURSIVE SortByPriority(_)
SortByPriority(s) ==
  IF s = <<>> THEN <<>>
  ELSE LET i == CHOOSE i \in 1..Len(s) :
                  /\ \A j \in 1..Len(s) : ~KeyLess(s[i], s[j])
                  /\ \A j \in 1..(i - 1) : KeyLess(s[j], s[i])
       IN <<s[i]>> \o SortByPriority(RemoveAt(s, i))

\* Mutant: visited customers are not filtered out.
UnvisitedCustomers_all(cr, order, visited) == order

\* unvisited_customers: the keys of customer_recommendations, in order,
\* that are not in visited_customers.
UnvisitedCustomers(cr, order, visited) ==
  SelectSeq(order, LAMBDA code : code \notin visited)

EligibleEntry(cr, adj, customer_code, item_code) ==
  LET item_rec == ItemOf(cr[customer_code], item_code) IN
    [customer_code |-> customer_code,
     tier |-> item_rec.tier,
     probability |-> item_rec.probability,
     urgency_score |-> item_rec.urgency_score,
     current_recommended |-> item_rec.recommended_quantity,
     current_adjustment |-> Get(adj[customer_code], item_code, 0)]

EligibleCustomers(cr, adj, unvisited, item_code) ==
  LET having == SelectSeq(unvisited, LAMBDA code : HasItem(cr[code], item_code))
  IN [k \in 1..Len(having) |-> EligibleEntry(cr, adj, having[k], item_code)]

\* Mutant: the increase is capped at 100% instead of 50%.
max_increase_full(current_recommended) == Max(1, current_recommended)

\* A cap without the floor of one unit.
max_increase_half(current_recommended) == current_recommended \div 2

\* max(1, int(customer['current_recommended'] * 0.5))
max_increase(current_recommended) == Max(1, current_recommended \div 2)

\* The loop over eligible_customers[:5] for one item; st holds the
\* adjustments (adj), redistribution_details (details) and remaining_qty.
RECURSIVE Distribute(_, _, _, _)
Distribute(st, top, j, item_code) ==
  IF j > Len(top) \/ st.remaining_qty <= 0 THEN st
  ELSE LET customer == top[j]
           redistribute_qty == Min(st.remaining_qty, max_increase(customer.current_recommended))
           customer_code == customer.customer_code
           old == Get(st.adj[customer_code], item_code, 0)
           adj1 == [st.adj EXCEPT ![customer_code] =
                      (item_code :> (old + redistribute_qty)) @@ @]
       IN Distribute([adj |-> adj1,
                      details |-> Append(st.details,
                                    [item_code |-> item_code,
                                     customer_code |-> customer_code,
                                     quantity |-> redistribute_qty,
                                     tier |-> customer.tier,
                                     probability |-> customer.probability]),
                      remaining_qty |-> st.remaining_qty - redistribute_qty],
                     top, j + 1, item_code)

\* The loop over unsold_items.items().
RECURSIVE RedistributeLoop(_, _, _, _, _)
RedistributeLoop(st, cr, unvisited, unsold_items, k) ==
  IF k > Len(unsold_items) THEN st
  ELSE LET item_code == unsold_items[k].item_code
           eligible_customers == EligibleCustomers(cr, st.adj, unvisited, item_code)
           sorted == SortByPriority(eligible_customers)
           top == SubSeq(sorted, 1, Min(TopRecipients, Len(sorted)))
           st1 == IF eligible_customers = <<>> THEN st
                  ELSE Distribute([adj |-> st.adj, details |-> st.details,
                                   remaining_qty |-> unsold_items[k].quantity],
                                  top, 1, item_code)
       IN RedistributeLoop([adj |-> st1.adj, details |-> st1.details],
                           cr, unvisited, unsold_items, k + 1)

\* items_not_redistributed: unsold items with no entry in the details.
ItemsNotRedistributed(unsold_items, details) ==
  LET codes == [k \in 1..Len(unsold_items) |-> unsold_items[k].item_code] IN
    SelectSeq(codes, LAMBDA code :
                ~\E d \in 1..Len(details) : details[d].item_code = code)

\* Returns [adj, redistribution]: the adjustments after the pass and the
\* returned dict.
redistribute_items(cr, order, visited, adj, unsold_items) ==
  LET unvisited == UnvisitedCustomers(cr, order, visited) IN
  IF unsold_items = <<>>
  THEN [adj |-> adj,
        redistribution |-> [redistributed_count |-> 0, details |-> <<>>,
                            status |-> "nothing_to_redistribute"]]
  ELSE IF unvisited = <<>>
  THEN [adj |-> adj,
        redistribution |-> [redistributed_count |-> 0, details |-> <<>>,
                            status |-> "no_remaining_customers"]]
  ELSE LET st == RedistributeLoop([adj |-> adj, details |-> <<>>],
                                  cr, unvisited, unsold_items, 1)
           items_not_redistributed == ItemsNotRedistributed(unsold_items, st.details)
       IN [adj |-> st.adj,
           redistribution |->
             [redistributed_count |-> Len(st.details),
              details |-> st.details,
              status |-> IF items_not_redistributed = <<>> THEN "success" ELSE "partial",
              items_not_redistributed |-> items_not_redistributed]]

(***************************************************************************)
(* DynamicSupervisionSession.process_visit                                 *)
(***************************************************************************)
CustomerNotFound(customer_code) ==
  [kind |-> "error", error |-> "not_found", customer_code |-> customer_code]

AlreadyVisited(customer_code) ==
  [kind |-> "error", error |-> "already_visited", customer_code |-> customer_code]

\* if customer_code not in self.customer_recommendations
IsUnknown(customer_code) == customer_code \notin DOMAIN customer_recommendations

\* Mutant: the already-visited check is missing.
IsVisited_never(customer_code) == FALSE

\* if customer_code in self.visited_customers
IsVisited(customer_code) == customer_code \in visited_customers

\* Mutant: the accumulated adjustment is left out.
RecommendedQty_noadj(item_rec, adj_c) == item_rec.recommended_quantity

\* recommended_qty = item_rec.recommended_quantity + adjustments.get(item_code, 0)
RecommendedQty(item_rec, adj_c) ==
  item_rec.recommended_quantity + Get(adj_c, item_rec.item_code, 0)

\* Mutant: the whole adjusted recommendation counts as unsold.
UnsoldQty_all(item_rec, adj_c, actual_sales) == RecommendedQty(item_rec, adj_c)

\* unsold_qty = recommended_qty - actual_qty
UnsoldQty(item_rec, adj_c, actual_sales) ==
  RecommendedQty(item_rec, adj_c) - Get(actual_sales, item_rec.item_code, 0)

\* if actual_qty < recommended_qty
IsUnsold(item_rec, adj_c, actual_sales) ==
  Get(actual_sales, item_rec.item_code, 0) < RecommendedQty(item_rec, adj_c)

\* unsold_items: the insertion-ordered dict {item_code: {'quantity': ...}}
UnsoldItems(customer_rec, adj_c, actual_sales) ==
  LET short == SelectSeq(customer_rec.items,
                         LAMBDA item_rec : IsUnsold(item_rec, adj_c, actual_sales))
  IN [k \in 1..Len(short) |->
        [item_code |-> short[k].item_code,
         quantity |-> UnsoldQty(short[k], adj_c, actual_sales)]]

\* Mutant: the customer is marked visited before the lookup fails.
VisitUnknown_marks(customer_code) ==
  /\ IsUnknown(customer_code)
  /\ result' = CustomerNotFound(customer_code)
  /\ visited_customers' = visited_customers \cup {customer_code}
  /\ UNCHANGED <<customer_recommendations, custOrder, van_inventory,
                 adjustments, redistribution_log>>

VisitUnknown(customer_code) ==
  /\ IsUnknown(customer_code)
  /\ result' = CustomerNotFound(customer_code)
  /\ UNCHANGED <<customer_recommendations, custOrder, van_inventory,
                 visited_customers, adjustments, redistribution_log>>

VisitAgain(customer_code) ==
  /\ ~IsUnknown(customer_code)
  /\ IsVisited(customer_code)
  /\ result' = AlreadyVisited(customer_code)
  /\ UNCHANGED <<customer_recommendations, custOrder, van_inventory,
                 visited_customers, adjustments, redistribution_log>>

VisitFirst(customer_code, actual_sales) ==
  /\ ~IsUnknown(customer_code)
  /\ ~IsVisited(customer_code)
  /\ LET visited1 == visited_customers \cup {customer_code}
         cr1 == [customer_recommendations EXCEPT
                   ![customer_code].visited = TRUE,
                   ![customer_code].actual_sales = actual_sales]
         unsold_items == UnsoldItems(cr1[customer_code], adjustments[customer_code],
                                     actual_sales)
         r == redistribute_items(cr1, custOrder, visited1, adjustments, unsold_items)
     IN /\ visited_customers' = visited1
        /\ customer_recommendations' = cr1
        /\ adjustments' = r.adj
        /\ redistribution_log' = Append(redistribution_log,
             [customer_code |-> customer_code,
              unsold_items |-> unsold_items,
              redistribution |-> r.redistribution])
        /\ result' = [kind |-> "visit", success |-> TRUE,
                      customer_code |-> customer_code,
                      unsold_items |-> unsold_items,
                      redistribution |-> r.redistribution]
  /\ UNCHANGED <<custOrder, van_inventory>>

process_visit(customer_code, actual_sales) ==
  \/ VisitUnknown(customer_code)
  \/ VisitAgain(customer_code)
  \/ VisitFirst(customer_code, actual_sales)

(***************************************************************************)
(* Inputs.                                                                 *)
(***************************************************************************)
Row(c, i, q, t) ==
  [CustomerCode |-> c, ItemCode |-> i, RecommendedQuantity |-> q, Tier |-> t]

RowPU(c, i, q, t, p, u) ==
  [CustomerCode |-> c, ItemCode |-> i, RecommendedQuantity |-> q, Tier |-> t,
   ProbabilityPercent |-> p, UrgencyScore |-> u]

Qtys == 1..MaxQty

\* Three customers, two items, no probability/urgency columns (the columns
\* of a stored batch).
BatchesQ ==
  { << Row("c1", "X", qa, "CONSIDER"), Row("c1", "Y", qb, "MUST_STOCK"),
       Row("c2", "X", qb, "CONSIDER"),
       Row("c3", "X", qa, "MUST_STOCK"), Row("c3", "Y", qa, "MONITOR") >> :
      qa \in Qtys, qb \in Qtys }

\* One or two customers: the session runs out of unvisited customers.
BatchesFew ==
  { << Row("c1", "X", qa, "CONSIDER") >> : qa \in Qtys } \cup
  { << Row("c1", "X", qa, "CONSIDER"), Row("c2", "X", qb, "SHOULD_STOCK") >> :
      qa \in Qtys, qb \in Qtys }

Batches == BatchesQ \cup BatchesFew

\* actual_sales: {item_code: quantity}; no key, one key, or every item.
SalesInputs ==
  {EmptyMap} \cup
  { (i :> a) : i \in Items, a \in 0..MaxSold } \cup
  { [i \in Items |-> MaxSold] }

\* Batches with one item and graded rows: a seller and three recipients
\* recommended 4, 6 and 8 units; a seller and six recipients.
Grades ==
  { [t |-> "MUST_STOCK", p |-> 50, u |-> 5],
    [t |-> "CONSIDER", p |-> 80, u |-> 5],
    [t |-> "CONSIDER", p |-> 50, u |-> 9],
    [t |-> "CONSIDER", p |-> 50, u |-> 5] }

GRow(c, q, g) == RowPU(c, "Y", q, g.t, g.p, g.u)

DefaultGrade == [t |-> "CONSIDER", p |-> 50, u |-> 5]

EndGrades == {DefaultGrade, [t |-> "MUST_STOCK", p |-> 50, u |-> 5]}

BatchesGraded ==
  { << GRow("c1", 10, DefaultGrade), GRow("c2", 4, g2), GRow("c3", 6, g3),
       GRow("c4", 8, g4) >> : g2 \in Grades, g3 \in Grades, g4 \in EndGrades }

BatchesWide ==
  { << GRow("c1", 10, DefaultGrade), GRow("c2", 1, DefaultGrade),
       GRow("c3", 2, g3), GRow("c4", 3, DefaultGrade), GRow("c5", 5, g5),
       GRow("c6", 7, g6), GRow("c7", 3, g7) >> :
      g3 \in Grades, g5 \in {DefaultGrade},
      g6 \in {DefaultGrade, [t |-> "NEW_CUSTOMER", p |-> 50, u |-> 5]},
      g7 \in EndGrades }

SalesInputsWide == {EmptyMap, "Y" :> MaxSold}

VisitCodes == DOMAIN customer_recommendations \cup {UnknownCustomer}

(***************************************************************************)
(* The session state machine.                                              *)
(***************************************************************************)
\* DynamicSupervisionSession.__init__
SessionInit ==
  /\ customer_recommendations = EmptyMap
  /\ custOrder = <<>>
  /\ van_inventory = EmptyMap
  /\ visited_customers = {}
  /\ adjustments = EmptyMap
  /\ redistribution_log = <<>>
  /\ result = [kind |-> "created"]

\* No generation run is in progress.
GenIdle ==
  /\ pc = "idle"
  /\ van_items = EmptyMap
  /\ demand_items = <<>>
  /\ journey_customers = <<>>
  /\ customer_df = EmptyMap
  /\ df = <<>>
  /\ recommendations = <<>>

\* active_sessions = {}: no request was received yet.
SrvIdle ==
  /\ requests = EmptyMap
  /\ active_sessions = EmptyMap
  /\ objects = 0

\* None of Python.
None == -1

\* PriorityCalculator.__init__: nothing is cached, and no call was made.
ScorerIdle ==
  /\ call = [fn |-> "none"]
  /\ market_benchmark_cache = None
  /\ market_benchmark_date = None

\* The table before anything was saved.
StoreIdle ==
  /\ tbl_recommended_orders = <<>>
  /\ now = 0

Init == SessionInit /\ GenIdle /\ SrvIdle /\ ScorerIdle /\ StoreIdle

\* The route handler initializes a session it has just created.
Initialize ==
  /\ customer_recommendations = EmptyMap
  /\ \E recommendations_df \in Batches :
       initialize_from_recommendations(recommendations_df)
  /\ UNCHANGED <<genVars, srvVars, scorerVars, storeVars>>

\* The error returns do not read actual_sales: one value stands for all.
SalesFor(customer_code) ==
  IF IsUnknown(customer_code) \/ IsVisited(customer_code)
  THEN {EmptyMap}
  ELSE SalesInputs

ProcessVisit ==
  \E customer_code \in VisitCodes :
    \E actual_sales \in SalesFor(customer_code) :
      /\ Len(redistribution_log) < MaxVisits
      /\ process_visit(customer_code, actual_sales)
      /\ UNCHANGED <<genVars, srvVars, scorerVars, storeVars>>

Next == Initialize \/ ProcessVisit

Spec == Init /\ [][Next]_vars

(***************************************************************************)
(* The same session over the graded one-item batches.                      *)
(***************************************************************************)
InitializeWide ==
  /\ customer_recommendations = EmptyMap
  /\ \E recommendations_df \in BatchesGraded \cup BatchesWide :
       initialize_from_recommendations(recommendations_df)
  /\ UNCHANGED <<genVars, srvVars, scorerVars, storeVars>>

SalesForWide(customer_code) ==
  IF IsUnknown(customer_code) \/ IsVisited(customer_code)
  THEN {EmptyMap}
  ELSE SalesInputsWide

ProcessVisitWide ==
  \E customer_code \in VisitCodes :
    \E actual_sales \in SalesForWide(customer_code) :
      /\ Len(redistribution_log) < MaxVisits
      /\ process_visit(customer_code, actual_sales)
      /\ UNCHANGED <<genVars, srvVars, scorerVars, storeVars>>

NextWide == InitializeWide \/ ProcessVisitWide

WideSpec == Init /\ [][NextWide]_vars

(***************************************************************************)
(* DynamicSupervisionSession.get_session_summary                           *)
(***************************************************************************)
RECURSIVE SumFn(_)
SumFn(f) ==
  IF DOMAIN f = {} THEN 0
  ELSE LET k == CHOOSE k \in DOMAIN f : TRUE
       IN f[k] + SumFn([j \in DOMAIN f \ {k} |-> f[j]])

\* sum of item_rec.recommended_quantity over customer_rec.items
ItemsRecommended(customer_rec) ==
  SumSeq([k \in 1..Len(customer_rec.items) |->
            customer_rec.items[k].recommended_quantity])

\* sum of recommended_with_adjustment over customer_rec.items
ItemsRecommendedWithAdjustment(customer_rec, adj_c) ==
  SumSeq([k \in 1..Len(customer_rec.items) |->
            RecommendedQty(customer_rec.items[k], adj_c)])

\* sum of customer_rec.actual_sales.get(item_code, 0) over customer_rec.items
ItemsActual(customer_rec) ==
  SumSeq([k \in 1..Len(customer_rec.items) |->
            Get(customer_rec.actual_sales, customer_rec.items[k].item_code, 0)])

\* round(visited_actual / visited_recommended * 100, 1), in tenths of a
\* percent; 0 when nothing was recommended to the visited customers.
PerformanceRate(visited_actual, visited_recommended) ==
  IF visited_recommended > 0
  THEN RoundHalfEven(visited_actual * 1000, visited_recommended)
  ELSE 0

get_session_summary ==
  LET route_total_recommended ==
        SumFn([c \in DOMAIN customer_recommendations |->
                 ItemsRecommended(customer_recommendations[c])])
      visited_recommended ==
        SumFn([c \in visited_customers |->
                 ItemsRecommendedWithAdjustment(customer_recommendations[c],
                                                adjustments[c])])
      visited_actual ==
        SumFn([c \in visited_customers |->
                 ItemsActual(customer_recommendations[c])])
  IN [kind |-> "summary",
      total_customers |-> Cardinality(DOMAIN customer_recommendations),
      visited_customers |-> Cardinality(visited_customers),
      remaining_customers |->
        Cardinality(DOMAIN customer_recommendations) - Cardinality(visited_customers),
      performance_rate |-> PerformanceRate(visited_actual, visited_recommended),
      total_recommended |-> route_total_recommended,
      total_actual |-> visited_actual,
      visited_recommended |-> visited_recommended,
      redistribution_count |-> Len(redistribution_log)]

\* The summary route: the summary of the session is returned, nothing is
\* changed.
GetSessionSummary ==
  /\ result' = get_session_summary
  /\ UNCHANGED <<customer_recommendations, custOrder, van_inventory,
                 visited_customers, adjustments, redistribution_log>>
  /\ UNCHANGED <<genVars, srvVars, scorerVars, storeVars>>

NextSummary == Initialize \/ ProcessVisit \/ GetSessionSummary

SummarySpec == Init /\ [][NextSummary]_vars

(***************************************************************************)
(* The server: the routes of sales_supervision.py over the registry        *)
(* active_sessions.  One session key is modelled; the session variables    *)
(* hold the object registered under it.  Every handler is a coroutine      *)
(* without a suspension point (no await between its first and last line)   *)
(* and the server runs one event loop, so a handler is one step.           *)
(***************************************************************************)
SessionKey == "1004_2025-01-01"

Clients == 1..MaxClients

\* A process-visit request was received: it waits for its handler.
Submit(client) ==
  /\ client \notin DOMAIN requests
  /\ \E customer_code \in {"c1", "c2", UnknownCustomer} :
       requests' = requests @@
         (client :> [customer_code |-> customer_code,
                     actual_sales |-> EmptyMap,
                     response |-> "pending",
                     session |-> 0])
  /\ UNCHANGED <<sessVars, genVars, scorerVars, storeVars, active_sessions, objects>>

\* get_or_create_session creates an object when the key is not registered.
Creates == SessionKey \notin DOMAIN active_sessions

\* process_customer_visit: get_or_create_session, then process_visit on the
\* session; an error value becomes a 400 response.
HandleVisit(client) ==
  /\ client \in DOMAIN requests
  /\ requests[client].response = "pending"
  /\ objects' = IF Creates THEN objects + 1 ELSE objects
  /\ active_sessions' = IF Creates THEN (SessionKey :> objects + 1)
                        ELSE active_sessions
  /\ process_visit(requests[client].customer_code, requests[client].actual_sales)
  /\ requests' = [requests EXCEPT
       ![client].response = IF result'.kind = "visit" THEN "ok" ELSE result'.error,
       ![client].session = active_sessions'[SessionKey]]
  /\ UNCHANGED <<genVars, scorerVars, storeVars>>

\* initialize_dynamic_session: clear_session, get_or_create_session, then
\* initialize_from_recommendations on the new object.
InitializeSession ==
  /\ objects < MaxObjects
  /\ objects' = objects + 1
  /\ active_sessions' = (SessionKey :> objects + 1)
  /\ \E recommendations_df \in BatchesFew :
       LET st == InitRows([cr |-> EmptyMap, order |-> <<>>, van |-> EmptyMap],
                          recommendations_df, 1)
       IN /\ customer_recommendations' = st.cr
          /\ custOrder' = st.order
          /\ van_inventory' = st.van
          /\ adjustments' = [c \in DOMAIN st.cr |-> EmptyMap]
          /\ visited_customers' = {}
          /\ redistribution_log' = <<>>
          /\ result' = [kind |-> "initialized", value |-> TRUE]
  /\ UNCHANGED <<genVars, scorerVars, storeVars, requests>>

\* initialize_dynamic_session if it parsed the date and loaded the
\* recommendations before clear_session: a failing request would leave the
\* registered session as it was.
InitializeSessionFails_keeping_session ==
  /\ result' = [kind |-> "http_error"]
  /\ UNCHANGED <<customer_recommendations, custOrder, van_inventory,
                 visited_customers, adjustments, redistribution_log>>
  /\ UNCHANGED <<genVars, srvVars, scorerVars, storeVars>>

\* initialize_dynamic_session when the date does not parse or no
\* recommendations exist: the new, empty session stays registered.
InitializeSessionFails ==
  /\ objects < MaxObjects
  /\ objects' = objects + 1
  /\ active_sessions' = (SessionKey :> objects + 1)
  /\ customer_recommendations' = EmptyMap
  /\ custOrder' = <<>>
  /\ van_inventory' = EmptyMap
  /\ adjustments' = EmptyMap
  /\ visited_customers' = {}
  /\ redistribution_log' = <<>>
  /\ result' = [kind |-> "http_error"]
  /\ UNCHANGED <<genVars, scorerVars, storeVars, requests>>

NextServer ==
  \/ \E client \in Clients : Submit(client)
  \/ \E client \in Clients : HandleVisit(client)
  \/ InitializeSession
  \/ InitializeSessionFails

\* The step in which the handler of the client's request returns: a
\* HandleVisit(client) step, named by what it does to the request.
HandlerReturns(client) ==
  /\ client \in DOMAIN requests
  /\ requests[client].response = "pending"
  /\ \E response \in {"ok", "not_found", "already_visited"} :
       \E session \in 1..(objects + 1) :
         requests' = [requests EXCEPT ![client].response = response,
                                      ![client].session = session]

\* The event loop runs every handler that is ready.
ServerSpec ==
  /\ Init
  /\ [][NextServer]_vars
  /\ \A client \in Clients : WF_requests(HandlerReturns(client))

(***************************************************************************)
(* The session object when initialize_from_recommendations is called on it *)
(* again: the method does not require a session without customers.  The    *)
(* calls stop once the van inventory of an item exceeds MaxLoad.            *)
(***************************************************************************)
InitializeAgain ==
  /\ \A item_code \in DOMAIN van_inventory : van_inventory[item_code] <= MaxLoad
  /\ \E recommendations_df \in BatchesFew :
       initialize_from_recommendations(recommendations_df)
  /\ UNCHANGED <<genVars, srvVars, scorerVars, storeVars>>

NextReuse == InitializeAgain \/ ProcessVisit

ReuseSpec == Init /\ [][NextReuse]_vars

(***************************************************************************)
(* TieredRecommendationSystem: one generation run.                         *)
(* Predicted (the van stock) is a float column, so the van stock and the   *)
(* row quantities are counted in half units: a stock of 1.5 is 3 and a     *)
(* recommended quantity of 4 is 8.  avg_qty is in half units as well.      *)
(* Priorities are whole scores between 0 and 100.                          *)
(***************************************************************************)
ItemOrder == <<"X", "Y">>

CustomerOrder == <<"A", "B", "C">>

\* sorted(codes): the codes of a set, ascending.
Sorted(codes, order) == SelectSeq(order, LAMBDA x : x \in codes)

\* A list that is left in the order it was supplied in.
sorted_as_supplied(codes, order) == codes

\* sorted(codes) of a list of distinct codes.
sorted(codes, order) == Sorted({ codes[k] : k \in DOMAIN codes }, order)

\* The quantity with the product of the unrounded average rounded once, in
\* half units: clamp(round(avg_qty * multiplier), 1, van_qty).
ProductRoundedOnce(priority, avg_qty, van_qty) ==
  Max(2, Min(2 * RoundHalfEven(avg_qty * (300 + 12 * priority), 2000), van_qty))

calculate_direct_quantity_product(priority, avg_qty, van_qty) ==
  ProductRoundedOnce(priority, avg_qty, van_qty) \div 2

\* _calculate_direct_quantity; avg_qty and van_qty in half units, the
\* result in whole units (the int() of the last line truncates).
\* priority_multiplier = 0.3 + (priority / 100.0) * 1.2 = (300 + 12 p) / 1000
calculate_direct_quantity(priority, avg_qty, van_qty) ==
  LET base_qty == Max(1, RoundHalfEven(avg_qty, 2))
      recommended_qty == RoundHalfEven(base_qty * (300 + 12 * priority), 1000)
  IN  Max(2, Min(2 * recommended_qty, van_qty)) \div 2

\* The threshold table of PriorityCalculator.get_tier; a strategy name that is
\* not in the table gets the thresholds of 'balanced'.
Strategies == {"conservative", "aggressive", "balanced", "unknown"}

thresholds ==
  [conservative |-> [MUST_STOCK |-> 85, SHOULD_STOCK |-> 65,
                     CONSIDER |-> 45, MONITOR |-> 25],
   aggressive   |-> [MUST_STOCK |-> 65, SHOULD_STOCK |-> 45,
                     CONSIDER |-> 25, MONITOR |-> 10],
   balanced     |-> [MUST_STOCK |-> 75, SHOULD_STOCK |-> 55,
                     CONSIDER |-> 35, MONITOR |-> 15]]

strategy_thresholds(strategy) ==
  IF strategy \in DOMAIN thresholds THEN thresholds[strategy]
  ELSE thresholds["balanced"]

\* A tier function whose comparisons are not in descending order.
get_tier_unordered(priority, strategy) ==
  LET t == strategy_thresholds(strategy)
  IN IF priority >= t.MUST_STOCK THEN "MUST_STOCK"
     ELSE IF priority >= t.CONSIDER THEN "CONSIDER"
     ELSE IF priority >= t.MONITOR THEN "SHOULD_STOCK"
     ELSE "EXCLUDE"

\* PriorityCalculator.get_tier(priority, strategy)
get_tier(priority, strategy) ==
  LET t == strategy_thresholds(strategy)
  IN IF priority >= t.MUST_STOCK THEN "MUST_STOCK"
     ELSE IF priority >= t.SHOULD_STOCK THEN "SHOULD_STOCK"
     ELSE IF priority >= t.CONSIDER THEN "CONSIDER"
     ELSE IF priority >= t.MONITOR THEN "MONITOR"
     ELSE "EXCLUDE"

MinPriority == 15

\* The item loop of _generate_recommendations for a customer with history:
\* items in sorted order, skipping items without stock, items the customer
\* never bought and items whose priority is under the threshold.
CandidateRow(customer, item, metrics, van_qty) ==
  [CustomerCode |-> customer,
   ItemCode |-> item,
   RecommendedQuantity |->
     2 * calculate_direct_quantity(metrics.priority, metrics.avg_qty, van_qty),
   Tier |-> get_tier(metrics.priority, "balanced"),
   VanLoad |-> van_qty,
   PriorityScore |-> metrics.priority]

CustomerRows(customer, item_dict, van, supplied) ==
  LET sorted_items == sorted(supplied, ItemOrder)
      kept == SelectSeq(sorted_items, LAMBDA item :
                /\ van[item] > 0
                /\ item \in DOMAIN item_dict
                /\ item_dict[item].priority >= MinPriority)
  IN [k \in 1..Len(kept) |->
        CandidateRow(customer, kept[k], item_dict[kept[k]], van[kept[k]])]

\* QUANTITY_PARAMS['NEW_CUSTOMER_ITEMS_COUNT'] and ['NEW_CUSTOMER_QTY']
NewCustomerItemsCount == 5

NewCustomerQty == 5

\* The popular items of _recommend_for_new_customer: the first
\* NEW_CUSTOMER_ITEMS_COUNT items of the van in descending order of stock
\* (the sort is stable, items of equal stock keep the order of the van).
popular_items(van) ==
  LET items == Sorted(DOMAIN van, ItemOrder)
      Ahead(j, k) == \/ van[items[j]] > van[items[k]]
                     \/ van[items[j]] = van[items[k]] /\ j < k
  IN { items[k] : k \in { k \in 1..Len(items) :
         Cardinality({ j \in 1..Len(items) : Ahead(j, k) })
           < NewCustomerItemsCount } }

\* _recommend_for_new_customer builds a row for every popular item with
\* positive stock, and building the row reads
\* NEW_CUSTOMER_PARAMS['PRIORITY_SCORE'], a key the settings do not define:
\* the call raises KeyError as soon as the van carries an item with positive
\* stock (the item with the largest stock is always among the popular ones),
\* and returns no row otherwise.
NewCustomerRaises(van) ==
  \E item \in popular_items(van) : van[item] > 0

IsNewCustomer(history, customer) == customer \notin DOMAIN history

RECURSIVE CandidateRows(_, _, _, _, _)
CandidateRows(history, customers, van, supplied, k) ==
  IF k > Len(customers) THEN <<>>
  ELSE (IF IsNewCustomer(history, customers[k]) THEN <<>>
        ELSE CustomerRows(customers[k], history[customers[k]], van, supplied))
       \o CandidateRows(history, customers, van, supplied, k + 1)

CustomerRank(customer) ==
  CHOOSE k \in 1..Len(CustomerOrder) : CustomerOrder[k] = customer

RowBefore(r1, r2) ==
  \/ CustomerRank(r1.CustomerCode) < CustomerRank(r2.CustomerCode)
  \/ /\ r1.CustomerCode = r2.CustomerCode
     /\ r1.PriorityScore > r2.PriorityScore

\* df.sort_values(['CustomerCode', 'PriorityScore'], ascending=[True, False]):
\* a sort on several columns is a lexsort, which is stable.
RECURSIVE SortRows(_)
SortRows(rows) ==
  IF rows = <<>> THEN <<>>
  ELSE LET i == CHOOSE i \in 1..Len(rows) :
                  /\ \A j \in 1..Len(rows) : ~RowBefore(rows[j], rows[i])
                  /\ \A j \in 1..(i - 1) : RowBefore(rows[i], rows[j])
       IN <<rows[i]>> \o SortRows(RemoveAt(rows, i))

(***************************************************************************)
(* _apply_van_load_constraints                                             *)
(***************************************************************************)
RECURSIVE Unique(_)
Unique(s) ==
  IF s = <<>> THEN <<>>
  ELSE <<Head(s)>> \o Unique(SelectSeq(Tail(s), LAMBDA x : x # Head(s)))

ItemIndexes(rows, item_code) ==
  {i \in 1..Len(rows) : rows[i].ItemCode = item_code}

TotalRecommended(rows, item_code) ==
  LET item_data == SelectSeq(rows, LAMBDA r : r.ItemCode = item_code)
  IN SumSeq([k \in 1..Len(item_data) |-> item_data[k].RecommendedQuantity])

\* Mutant: the rows of an item are served in any order.
PriorityOrders_any(rows, item_code) ==
  LET idx == ItemIndexes(rows, item_code) IN
    {o \in [1..Cardinality(idx) -> idx] :
       \A k, l \in DOMAIN o : k # l => o[k] # o[l]}

\* item_data.sort_values('PriorityScore', ascending=False): the sort on one
\* column is a quicksort, which is not stable, so rows with equal scores
\* come in any order.
PriorityOrders(rows, item_code) ==
  LET idx == ItemIndexes(rows, item_code) IN
    {o \in [1..Cardinality(idx) -> idx] :
       /\ \A k, l \in DOMAIN o : k # l => o[k] # o[l]
       /\ \A k, l \in DOMAIN o :
            k < l => rows[o[k]].PriorityScore >= rows[o[l]].PriorityScore}

\* Mutant: a row keeps its quantity whatever is left of the load.
Allocate_full(original_qty, remaining_load) == original_qty

\* allocated_qty = min(original_qty, remaining_load)
Allocate(original_qty, remaining_load) == Min(original_qty, remaining_load)

RECURSIVE AllocateInOrder(_, _, _, _)
AllocateInOrder(rows, order, k, remaining_load) ==
  IF k > Len(order) THEN rows
  ELSE LET idx == order[k]
           allocated_qty ==
             IF remaining_load <= 0 THEN 0
             ELSE Allocate(rows[idx].RecommendedQuantity, remaining_load)
       IN AllocateInOrder(
            [rows EXCEPT ![idx].RecommendedQuantity = allocated_qty],
            order, k + 1, remaining_load - allocated_qty)

RECURSIVE ConstrainItems(_, _, _, _)
ConstrainItems(rows, item_codes, k, orders) ==
  IF k > Len(item_codes) THEN rows
  ELSE LET item_code == item_codes[k]
           first == CHOOSE i \in ItemIndexes(rows, item_code) :
                      \A j \in ItemIndexes(rows, item_code) : i <= j
           van_load == rows[first].VanLoad
           total_recommended == TotalRecommended(rows, item_code)
           rows1 == IF total_recommended > van_load
                    THEN AllocateInOrder(rows, orders[item_code], 1, van_load)
                    ELSE rows
       IN ConstrainItems(rows1, item_codes, k + 1, orders)

\* The quantities after the loop over the items, zero rows still present.
ConstrainedRows(rows, orders) ==
  ConstrainItems(rows,
                 Unique([k \in 1..Len(rows) |-> rows[k].ItemCode]), 1, orders)

\* RecommendedQuantity is a column of integers.  With a fractional load the
\* allocated quantity can be fractional (an odd number of half units).
StoresFraction(rows, orders) ==
  \E i \in 1..Len(rows) :
     ConstrainedRows(rows, orders)[i].RecommendedQuantity % 2 = 1

apply_van_load_constraints(rows, orders) ==
  SelectSeq(ConstrainedRows(rows, orders),
            LAMBDA r : r.RecommendedQuantity > 0)

(***************************************************************************)
(* Inputs of a generation run.                                             *)
(***************************************************************************)
Priorities == {10, 50, 80}

AvgLevels == 1..MaxAvgHalves

StockLevels == 0..(2 * MaxStock)

Metrics(p, a) == [priority |-> p, avg_qty |-> a]

Journeys == {<<>>, <<"C">>, <<"B", "A">>, <<"C", "A", "B">>}

Vans ==
  {EmptyMap} \cup
  {("X" :> sx) @@ ("Y" :> sy) : sx \in StockLevels, sy \in {0, 3, 2 * MaxStock}}

\* A bought X and Y, B bought X; C is either a customer with history or a
\* customer the history does not know.
Histories ==
  {("A" :> (("X" :> Metrics(pa, aa)) @@ ("Y" :> Metrics(pb, ab)))) @@
   ("B" :> ("X" :> Metrics(pb, ab))) @@ hc :
     pa \in Priorities, aa \in AvgLevels,
     pb \in Priorities, ab \in {a \in AvgLevels : a = 1 \/ a % 4 = 0},
     hc \in {EmptyMap,
             "C" :> (("X" :> Metrics(50, MaxAvgHalves)) @@
                     ("Y" :> Metrics(80, 2)))}}

(***************************************************************************)
(* The generation run: process_recommendations                             *)
(***************************************************************************)
GenInit ==
  /\ SessionInit
  /\ SrvIdle
  /\ ScorerIdle
  /\ StoreIdle
  /\ pc = "start"
  /\ van_items \in Vans
  /\ demand_items = Sorted(DOMAIN van_items, ItemOrder)
  /\ journey_customers \in Journeys
  /\ customer_df \in Histories
  /\ df = <<>>
  /\ recommendations = <<>>

OrderChoices(rows) ==
  {orders \in [Items -> UNION {PriorityOrders(rows, i) : i \in Items}] :
     \A i \in Items : orders[i] \in PriorityOrders(rows, i)}

\* process_recommendations.  The run returns an empty frame without demand
\* or without scheduled customers, raises when a new customer meets a van
\* with stock, and otherwise returns the constrained candidate rows.
\* Storing a fractional quantity into the integer column either widens the
\* column or raises, depending on the pandas release.
ProcessRecommendations ==
  /\ pc = "start"
  /\ LET customers == sorted(journey_customers, CustomerOrder)
         raises == \E k \in 1..Len(customers) :
                      /\ IsNewCustomer(customer_df, customers[k])
                      /\ NewCustomerRaises(van_items)
         rows == SortRows(CandidateRows(customer_df, customers, van_items,
                                        demand_items, 1))
     IN IF van_items = EmptyMap \/ journey_customers = <<>>
        THEN /\ pc' = "done"
             /\ df' = <<>>
             /\ recommendations' = <<>>
        ELSE IF raises
        THEN /\ pc' = "error"
             /\ df' = <<>>
             /\ recommendations' = <<>>
        ELSE \E orders \in OrderChoices(rows), widens \in BOOLEAN :
               IF StoresFraction(rows, orders) /\ ~widens
               THEN /\ pc' = "error"
                    /\ df' = rows
                    /\ recommendations' = <<>>
               ELSE /\ pc' = "done"
                    /\ df' = rows
                    /\ recommendations' = apply_van_load_constraints(rows, orders)
  /\ UNCHANGED <<van_items, demand_items, journey_customers, customer_df>>
  /\ UNCHANGED <<sessVars, srvVars, scorerVars, storeVars>>

NextGen == ProcessRecommendations

GenSpec == GenInit /\ [][NextGen]_vars

(***************************************************************************)
(* Properties of the session.                                              *)
(***************************************************************************)
\* A step in which a process_visit call returned (its result names the
\* customer the call was made for).
VisitCall == result'.kind \in {"visit", "error"}

VisitSucceeded == result'.kind = "visit"

SessionUnchanged ==
  UNCHANGED <<customer_recommendations, custOrder, van_inventory,
              visited_customers, adjustments, redistribution_log>>

LogCustomers == { redistribution_log[k].customer_code : k \in 1..Len(redistribution_log) }

\* The units of item_code handed to customer c by the step.
Delta(c, item_code) ==
  Get(adjustments'[c], item_code, 0) - Get(adjustments[c], item_code, 0)

\* Python's round(0.5 * n): halves go to the even neighbour.
RoundHalf(n) ==
  LET k == n \div 2 IN
    IF n % 2 = 0 THEN k ELSE IF k % 2 = 0 THEN k ELSE k + 1

C3_Step ==
  /\ visited_customers \subseteq visited_customers'
  /\ \A c \in visited_customers' \ visited_customers :
       /\ visited_customers' = visited_customers \cup {c}
       /\ Len(redistribution_log') = Len(redistribution_log) + 1
       /\ SubSeq(redistribution_log', 1, Len(redistribution_log)) = redistribution_log
       /\ redistribution_log'[Len(redistribution_log')].customer_code = c
  /\ redistribution_log' # redistribution_log => visited_customers' # visited_customers
  /\ (VisitCall /\ result'.customer_code \in visited_customers) =>
       /\ result' = AlreadyVisited(result'.customer_code)
       /\ SessionUnchanged

C3_Inv ==
  /\ Len(redistribution_log) = Cardinality(visited_customers)
  /\ LogCustomers = visited_customers

\* C3: each customer goes from not-visited to visited at most once; the
\* first process_visit of a known customer marks it visited and appends
\* exactly one log entry, every later one returns AlreadyVisited and changes
\* nothing.
C3_VisitedAtMostOnce == [][C3_Step]_vars /\ []C3_Inv

\* C3 witness: a visited customer was submitted again and refused.
C3_Witness ==
  /\ result.kind = "error"
  /\ result.error = "already_visited"
  /\ result.customer_code \in visited_customers
  /\ Len(redistribution_log) >= 1

\* C4: process_visit for a customer id that is not in the session's
\* recommendations returns the CustomerNotFound error value and leaves the
\* visited set, adjustments, actual_sales and log unchanged.
C4_UnknownCustomer ==
  [][(VisitCall /\ result'.customer_code \notin DOMAIN customer_recommendations) =>
       /\ result' = CustomerNotFound(result'.customer_code)
       /\ SessionUnchanged]_vars

\* C4 witness: an initialized session with a visit on record refused an
\* unknown customer.
C4_Witness ==
  /\ result.kind = "error"
  /\ result.error = "not_found"
  /\ result.customer_code \notin DOMAIN customer_recommendations
  /\ DOMAIN customer_recommendations # {}
  /\ visited_customers # {}

\* What the visit of customer c should report as unsold, item by item.
ExpectedUnsold(c, item_rec) ==
  LET sold == Get(customer_recommendations'[c].actual_sales, item_rec.item_code, 0)
      accumulated == Get(adjustments[c], item_rec.item_code, 0)
      amount == item_rec.recommended_quantity + accumulated - sold
  IN IF amount > 0 THEN amount ELSE 0

C5_Step ==
  VisitSucceeded =>
    LET c == result'.customer_code
        items == customer_recommendations[c].items
        unsold == result'.unsold_items
        handed == redistribution_log'[Len(redistribution_log')].unsold_items
    IN /\ handed = unsold
       /\ \A k \in 1..Len(items) :
            IF ExpectedUnsold(c, items[k]) > 0
            THEN \E j \in 1..Len(unsold) :
                   /\ unsold[j].item_code = items[k].item_code
                   /\ unsold[j].quantity = ExpectedUnsold(c, items[k])
            ELSE \A j \in 1..Len(unsold) : unsold[j].item_code # items[k].item_code
       /\ \A j \in 1..Len(unsold) :
            /\ \E k \in 1..Len(items) : items[k].item_code = unsold[j].item_code
            /\ \A j2 \in 1..Len(unsold) :
                 unsold[j2].item_code = unsold[j].item_code => j2 = j

\* C5: on a successful process_visit, for each recommended item of the
\* customer unsold = max(0, recommended_quantity + accumulated adjustment -
\* quantity sold (0 when missing)), and exactly the items with unsold > 0
\* are handed to redistribution.
C5_UnsoldQuantities == [][C5_Step]_vars

\* C5 witness: the visited customer had received an adjustment, one of its
\* items is unsold and another one is not.
C5_Witness ==
  /\ result.kind = "visit"
  /\ LET c == result.customer_code IN
       /\ \E j \in 1..Len(result.unsold_items) :
            Get(adjustments[c], result.unsold_items[j].item_code, 0) > 0
       /\ Len(result.unsold_items) < Len(customer_recommendations[c].items)

C6_Step ==
  VisitSucceeded =>
    LET details == result'.redistribution.details IN
      /\ \A d \in 1..Len(details) :
           /\ details[d].customer_code \notin visited_customers'
           /\ details[d].customer_code # result'.customer_code
           /\ details[d].customer_code \in DOMAIN customer_recommendations
           /\ HasItem(customer_recommendations[details[d].customer_code],
                      details[d].item_code)
           /\ Delta(details[d].customer_code, details[d].item_code) > 0
      /\ \A c \in DOMAIN adjustments : \A i \in Items :
           Delta(c, i) # 0 =>
             /\ c \notin visited_customers'
             /\ HasItem(customer_recommendations[c], i)

C6_Inv ==
  \A c \in DOMAIN adjustments : \A i \in DOMAIN adjustments[c] :
    HasItem(customer_recommendations[c], i)

\* C6: every customer that receives a redistribution delta for an item is
\* unvisited when it receives it (never the customer being visited) and
\* already has that item in its recommendation set; the adjustments map
\* never holds an item the customer was not recommended.
C6_RecipientsEligible == [][C6_Step]_vars /\ []C6_Inv

\* C6 witness: units were handed out while an earlier visited customer
\* also has the item.
C6_Witness ==
  /\ result.kind = "visit"
  /\ \E d \in 1..Len(result.redistribution.details) :
       \E v \in visited_customers \ {result.customer_code} :
         HasItem(customer_recommendations[v],
                 result.redistribution.details[d].item_code)

C7_Step ==
  VisitSucceeded =>
    LET details == result'.redistribution.details IN
      /\ \A c \in DOMAIN adjustments :
           \A k \in 1..Len(customer_recommendations[c].items) :
             LET item_rec == customer_recommendations[c].items[k] IN
               Delta(c, item_rec.item_code)
                 <= Max(1, RoundHalf(item_rec.recommended_quantity))
      /\ \A d \in 1..Len(details) :
           /\ details[d].quantity =
                Delta(details[d].customer_code, details[d].item_code)
           /\ \A e \in 1..Len(details) :
                (/\ details[e].customer_code = details[d].customer_code
                 /\ details[e].item_code = details[d].item_code) => e = d

\* C7: in a single redistribution pass no recipient's allocation of an
\* item rises by more than max(1, round(0.5 * its recommended quantity));
\* recipients recommended 4, 6 and 8 units get at most 2, 3 and 4.
C7_IncreaseCapped == [][C7_Step]_vars

\* C7 witness: the seller recommended 10 sold 2, and of the recipients
\* recommended 4, 6 and 8 the one with 8 received its 4 units.
C7_Witness ==
  /\ result.kind = "visit"
  /\ Len(result.unsold_items) = 1
  /\ result.unsold_items[1].quantity = 8
  /\ Len(result.redistribution.details) = 3
  /\ \E d \in 1..3 :
       LET det == result.redistribution.details[d] IN
         /\ det.quantity = 4
         /\ ItemOf(customer_recommendations[det.customer_code],
                   det.item_code).recommended_quantity = 8
  /\ { ItemOf(customer_recommendations[result.redistribution.details[d].customer_code],
              "Y").recommended_quantity : d \in 1..3 } = {4, 6, 8}

\* The order of the claim: tier rank, then probability, then urgency.
NamedTiers == {"MUST_STOCK", "SHOULD_STOCK", "CONSIDER", "MONITOR"}

TierRank(tier) ==
  IF tier = "MUST_STOCK" THEN 4
  ELSE IF tier = "SHOULD_STOCK" THEN 3
  ELSE IF tier = "CONSIDER" THEN 2
  ELSE 1

\* Item records a and b both carry a named tier and a is strictly ahead.
Ahead(a, b) ==
  /\ a.tier \in NamedTiers
  /\ b.tier \in NamedTiers
  /\ \/ TierRank(a.tier) > TierRank(b.tier)
     \/ /\ TierRank(a.tier) = TierRank(b.tier)
        /\ a.probability > b.probability
     \/ /\ TierRank(a.tier) = TierRank(b.tier)
        /\ a.probability = b.probability
        /\ a.urgency_score > b.urgency_score

\* The customers eligible for item_code after the step's visit.
EligibleSet(item_code) ==
  { c \in DOMAIN customer_recommendations :
      /\ c \notin visited_customers'
      /\ HasItem(customer_recommendations[c], item_code) }

C8_Step ==
  VisitSucceeded =>
    \A u \in 1..Len(result'.unsold_items) :
      LET item_code == result'.unsold_items[u].item_code
          E == EligibleSet(item_code)
          rec(c) == ItemOf(customer_recommendations[c], item_code)
      IN /\ Cardinality({ c \in E : Delta(c, item_code) > 0 }) <= 5
         /\ \A b \in E :
              Delta(b, item_code) > 0 =>
                /\ Cardinality({ a \in E : Ahead(rec(a), rec(b)) }) < 5
                /\ \A a \in E :
                     Ahead(rec(a), rec(b)) =>
                       Delta(a, item_code) =
                         Max(1, rec(a).recommended_quantity \div 2)

\* C8: recipients are served in the order tier rank descending
\* (MUST_STOCK=4 .. MONITOR=1), probability descending, urgency descending;
\* at most the first 5 eligible customers receive anything, and a recipient
\* receives units only after every recipient ahead of it has received the
\* full per-recipient limit of the pass.
C8_PriorityOrder == [][C8_Step]_vars

\* C8 witness: six customers were eligible, five received units, and a
\* customer later in the batch was served in place of an earlier one.
C8_Witness ==
  /\ result.kind = "visit"
  /\ Len(result.redistribution.details) = 5
  /\ Cardinality({ c \in DOMAIN customer_recommendations :
                     c \notin visited_customers }) >= 6
  /\ \E a \in DOMAIN adjustments, b \in DOMAIN adjustments :
       /\ a \notin visited_customers
       /\ b \notin visited_customers
       /\ \E i, j \in 1..Len(custOrder) :
            i < j /\ custOrder[i] = b /\ custOrder[j] = a
       /\ Get(adjustments[a], "Y", 0) > 0
       /\ Get(adjustments[b], "Y", 0) = 0
       /\ Ahead(ItemOf(customer_recommendations[a], "Y"),
                ItemOf(customer_recommendations[b], "Y"))

\* The units of the item of unsold entry u that the visit's pass placed.
Placed(u) ==
  LET details == result.redistribution.details
      mine == SelectSeq(details, LAMBDA d : d.item_code = u.item_code)
  IN SumSeq([k \in 1..Len(mine) |-> mine[k].quantity])

Listed(item_code) ==
  /\ "items_not_redistributed" \in DOMAIN result.redistribution
  /\ \E k \in 1..Len(result.redistribution.items_not_redistributed) :
       result.redistribution.items_not_redistributed[k] = item_code

\* C9: after a process_visit, every unsold item whose quantity could not be
\* fully placed (its deltas sum to less than its unsold quantity) is listed
\* in the visit result's items_not_redistributed.
C9_UnplacedReported ==
  result.kind = "visit" =>
    \A u \in 1..Len(result.unsold_items) :
      Placed(result.unsold_items[u]) < result.unsold_items[u].quantity =>
        Listed(result.unsold_items[u].item_code)

\* C10: after a process_visit, every unsold item for which no unvisited
\* customer has the item in its recommendations (also when no unvisited
\* customer remains) is listed in the visit result's
\* items_not_redistributed.
C10_NoRecipientReported ==
  result.kind = "visit" =>
    \A u \in 1..Len(result.unsold_items) :
      (\A c \in DOMAIN customer_recommendations \ visited_customers :
         ~HasItem(customer_recommendations[c], result.unsold_items[u].item_code))
        => Listed(result.unsold_items[u].item_code)

(***************************************************************************)
(* Properties of a generation run.                                         *)
(***************************************************************************)
\* The van stock of an item, in half units (0 for an item the van lacks).
VanStock(item_code) == Get(van_items, item_code, 0)

RowsOf(rows, item_code) == SelectSeq(rows, LAMBDA r : r.ItemCode = item_code)

\* The quantity the output recommends to a customer for an item.
OutQty(customer, item_code) ==
  LET out == SelectSeq(recommendations, LAMBDA r :
               r.CustomerCode = customer /\ r.ItemCode = item_code)
  IN IF out = <<>> THEN 0 ELSE out[1].RecommendedQuantity

\* The candidate rows of an item, as a set of positions in df.
Candidates(item_code) == ItemIndexes(df, item_code)

Reduced(i) ==
  OutQty(df[i].CustomerCode, df[i].ItemCode) < df[i].RecommendedQuantity

KeptFull(i) ==
  OutQty(df[i].CustomerCode, df[i].ItemCode) = df[i].RecommendedQuantity

\* C1: after the capacity pass of a generation run, for every item the sum
\* of the recommended quantities over all output rows is at most the van
\* stock of that item.
C1_CapacityRespected ==
  pc = "done" =>
    \A item_code \in Items :
      TotalRecommended(recommendations, item_code) <= VanStock(item_code)

\* C1 witness: the candidates of an item exceeded its stock and the output
\* still recommends the item to two customers.
C1_Witness ==
  /\ pc = "done"
  /\ \E item_code \in Items :
       /\ TotalRecommended(df, item_code) > VanStock(item_code)
       /\ Len(RowsOf(recommendations, item_code)) >= 2

Served(i) == OutQty(df[i].CustomerCode, df[i].ItemCode) > 0

Overbooked(item_code) ==
  TotalRecommended(df, item_code) > VanStock(item_code)

\* The run of the example: stock 5 of X, A 4 at priority 80, B 4 at 50.
Example ==
  /\ VanStock("X") = 10
  /\ Len(RowsOf(df, "X")) = 2
  /\ \E i, j \in Candidates("X") :
       /\ df[i].CustomerCode = "A" /\ df[i].PriorityScore = 80
       /\ df[i].RecommendedQuantity = 8
       /\ df[j].CustomerCode = "B" /\ df[j].PriorityScore = 50
       /\ df[j].RecommendedQuantity = 8

\* What the capacity pass does to the rows, whatever the order of service:
\* no output row has quantity 0; the rows of an item that fits are
\* unchanged; of an overbooked item the whole stock is handed out, every
\* output row is a candidate row with a quantity of at most the computed
\* one, and at most one row is served in part; the example gives A 4, B 1.
Allocation ==
  /\ \A k \in 1..Len(recommendations) :
       recommendations[k].RecommendedQuantity > 0
  /\ \A item_code \in Items :
       IF ~Overbooked(item_code)
       THEN RowsOf(recommendations, item_code) = RowsOf(df, item_code)
       ELSE /\ TotalRecommended(recommendations, item_code) = VanStock(item_code)
            /\ \A k \in 1..Len(RowsOf(recommendations, item_code)) :
                 \E i \in Candidates(item_code) :
                   RowsOf(recommendations, item_code)[k] =
                     [df[i] EXCEPT !.RecommendedQuantity =
                        OutQty(df[i].CustomerCode, item_code)]
            /\ \A i \in Candidates(item_code) :
                 OutQty(df[i].CustomerCode, item_code) <= df[i].RecommendedQuantity
            /\ Cardinality({i \in Candidates(item_code) :
                              Reduced(i) /\ Served(i)}) <= 1
  /\ Example => (OutQty("A", "X") = 8 /\ OutQty("B", "X") = 2)

\* C2 as stated: the rows of an overbooked item are served in descending
\* priority, each getting min(its quantity, stock left), and a row is
\* reduced only when every row of higher priority kept its full quantity.
C2_AsStated ==
  pc = "done" =>
    /\ Allocation
    /\ \A item_code \in Items : \A i, j \in Candidates(item_code) :
         (Overbooked(item_code) /\ Reduced(i)
            /\ df[j].PriorityScore > df[i].PriorityScore) => KeptFull(j)

\* C2: when the candidate quantities of an item exceed its van stock the
\* rows are served in descending priority, each getting min(its computed
\* quantity, stock not yet allocated): a row is served only when every row
\* of higher priority kept its full quantity, rows left with 0 are absent
\* from the output (stock 5, A 4 at priority 80, B 4 at priority 50 gives
\* A 4 and B 1).  When the candidates fit in the stock no row is changed.
C2_GreedyByPriority ==
  pc = "done" =>
    /\ Allocation
    /\ \A item_code \in Items : \A i, j \in Candidates(item_code) :
         (Overbooked(item_code) /\ Served(i)
            /\ df[j].PriorityScore > df[i].PriorityScore) => KeptFull(j)

\* C2 witness: the run of the example ended with A 4 and B 1.
C2_Witness ==
  /\ pc = "done"
  /\ Example
  /\ OutQty("A", "X") = 8
  /\ OutQty("B", "X") = 2

(***************************************************************************)
(* Properties of the session object across its operations.                 *)
(***************************************************************************)
\* The step keeps every adjustment entry and lowers none.
C11_Step ==
  \A c \in DOMAIN adjustments : \A item_code \in DOMAIN adjustments[c] :
    /\ c \in DOMAIN adjustments'
    /\ item_code \in DOMAIN adjustments'[c]
    /\ adjustments'[c][item_code] >= adjustments[c][item_code]

\* recommended_quantity + adjustment is never negative.
C11_Inv ==
  \A c \in DOMAIN customer_recommendations :
    \A k \in 1..Len(customer_recommendations[c].items) :
      RecommendedQty(customer_recommendations[c].items[k],
                     Get(adjustments, c, EmptyMap)) >= 0

\* C11: across any sequence of session operations the adjustment of a
\* (customer, item) pair only accumulates, it is never overwritten or reset
\* by a later operation, and recommended_quantity + adjustment is never
\* negative.
C11_AdjustmentsAccumulate == [][C11_Step]_vars /\ []C11_Inv

\* The session holds exactly what one initialize_from_recommendations call
\* with the batch leaves in a session that was just created.
InitializedOnce(recommendations_df) ==
  LET st == InitRows([cr |-> EmptyMap, order |-> <<>>, van |-> EmptyMap],
                     recommendations_df, 1)
  IN /\ customer_recommendations = st.cr
     /\ custOrder = st.order
     /\ van_inventory = st.van
     /\ adjustments = [c \in DOMAIN st.cr |-> EmptyMap]
     /\ visited_customers = {}
     /\ redistribution_log = <<>>

\* The step is an initialize_from_recommendations call with the batch.
InitializeCall(recommendations_df) ==
  LET st == InitRows([cr |-> customer_recommendations, order |-> custOrder,
                      van |-> van_inventory], recommendations_df, 1)
  IN /\ result'.kind = "initialized"
     /\ customer_recommendations' = st.cr
     /\ custOrder' = st.order
     /\ van_inventory' = st.van

C12_Step ==
  \A recommendations_df \in BatchesFew :
    (InitializedOnce(recommendations_df) /\ InitializeCall(recommendations_df))
      => /\ van_inventory' = van_inventory
         /\ customer_recommendations' = customer_recommendations
         /\ custOrder' = custOrder
         /\ adjustments' = adjustments

\* C12: calling initialize twice on a fresh session with the same batch
\* leaves the same van inventory and customer state as calling it once.
C12_InitializeIdempotent == [][C12_Step]_vars

\* The sum of the values of a map.
Total(d) == SumFn(d)

\* C13: the summary reports total_recommended = the sum of the original
\* recommended quantities of all customers, visited_recommended = the sum
\* of recommended_quantity + adjustment over the visited customers,
\* total_actual = the sum of the actual_sales of the visited customers, and
\* performance_rate = total_actual / visited_recommended * 100, or 0 when
\* visited_recommended is 0 (the rate is held in tenths of a percent).
C13_Summary ==
  result.kind = "summary" =>
    LET all_recommended ==
          SumFn([c \in DOMAIN customer_recommendations |->
                   ItemsRecommended(customer_recommendations[c])])
        with_adjustment ==
          SumFn([c \in visited_customers |->
                   ItemsRecommended(customer_recommendations[c])
                     + Total(adjustments[c])])
        sold ==
          SumFn([c \in visited_customers |->
                   Total(customer_recommendations[c].actual_sales)])
    IN /\ result.total_recommended = all_recommended
       /\ result.visited_recommended = with_adjustment
       /\ result.total_actual = sold
       /\ IF result.visited_recommended = 0
          THEN result.performance_rate = 0
          ELSE result.performance_rate * result.visited_recommended
                 = result.total_actual * 1000

(***************************************************************************)
(* Properties of the server.                                               *)
(***************************************************************************)
Pending(client) ==
  client \in DOMAIN requests /\ requests[client].response = "pending"

Handled(client) ==
  client \in DOMAIN requests /\ requests[client].response # "pending"

Succeeded(client) ==
  client \in DOMAIN requests /\ requests[client].response = "ok"

\* Two visit submissions for the same customer wait for their handlers, and
\* the customer is known to the registered session and was not visited.
ConcurrentVisits(a, b) ==
  /\ a # b
  /\ Pending(a)
  /\ Pending(b)
  /\ requests[a].customer_code = requests[b].customer_code
  /\ SessionKey \in DOMAIN active_sessions
  /\ requests[a].customer_code \in DOMAIN customer_recommendations
  /\ requests[a].customer_code \notin visited_customers

\* Two submissions wait for their handlers and the key is not registered.
ConcurrentFirstReferences(a, b) ==
  /\ a # b
  /\ Pending(a)
  /\ Pending(b)
  /\ SessionKey \notin DOMAIN active_sessions

C14_Inv ==
  /\ \A a \in DOMAIN requests : \A b \in DOMAIN requests :
       (/\ a # b
        /\ Succeeded(a)
        /\ Succeeded(b)
        /\ requests[a].session = requests[b].session)
         => requests[a].customer_code # requests[b].customer_code
  /\ \A i \in 1..Len(redistribution_log) : \A j \in 1..Len(redistribution_log) :
       i # j => redistribution_log[i].customer_code
                  # redistribution_log[j].customer_code
  /\ \A key \in DOMAIN active_sessions : active_sessions[key] = objects

\* A visit handler creates a session object only on the first reference to
\* the key, and answers with the registered object.
C14_Step ==
  \A client \in Clients :
    (Pending(client) /\ ~Pending(client)')
      => /\ requests'[client].session = active_sessions'[SessionKey]
         /\ SessionKey \in DOMAIN active_sessions
              => (objects' = objects /\ active_sessions' = active_sessions)
         /\ SessionKey \notin DOMAIN active_sessions => objects' = objects + 1

MaxPriority == 100

TierCalls ==
  [fn : {"get_tier"}, strategy : Strategies,
   p1 : 0..MaxPriority, p2 : 0..MaxPriority,
   returned : {FALSE}, tier1 : {""}, tier2 : {""}]

TierInit ==
  /\ SessionInit /\ GenIdle /\ SrvIdle /\ StoreIdle
  /\ market_benchmark_cache = None
  /\ market_benchmark_date = None
  /\ call \in TierCalls

GetTier ==
  /\ call.fn = "get_tier"
  /\ ~call.returned
  /\ call' = [call EXCEPT !.returned = TRUE,
                          !.tier1 = get_tier(call.p1, call.strategy),
                          !.tier2 = get_tier(call.p2, call.strategy)]
  /\ UNCHANGED <<sessVars, genVars, srvVars, storeVars,
                 market_benchmark_cache, market_benchmark_date>>

NextTier == GetTier

TierSpec == TierInit /\ [][NextTier]_vars

\* MUST_STOCK > SHOULD_STOCK > CONSIDER > MONITOR > EXCLUDE
TierLevel(tier) ==
  CASE tier = "MUST_STOCK" -> 4
    [] tier = "SHOULD_STOCK" -> 3
    [] tier = "CONSIDER" -> 2
    [] tier = "MONITOR" -> 1
    [] tier = "EXCLUDE" -> 0

\* C15: under each fixed strategy (conservative, aggressive, balanced, or a
\* name that is not in the table) get_tier is monotone: for priorities
\* p1 <= p2 in 0..100 the tier of p1 is not higher than the tier of p2.
C15_TierMonotone ==
  (call.fn = "get_tier" /\ call.returned /\ call.p1 <= call.p2)
    => TierLevel(call.tier1) <= TierLevel(call.tier2)

\* Two priorities on either side of a threshold, under an unknown strategy
\* name, were mapped to different tiers.
C15_Witness ==
  /\ call.fn = "get_tier" /\ call.returned
  /\ call.strategy = "unknown"
  /\ call.p1 = 54 /\ call.p2 = 55
  /\ call.tier1 = "CONSIDER" /\ call.tier2 = "SHOULD_STOCK"

\* ---------------------------------------------------------------------
\* PriorityCalculator.calculate_priority and the cycle calculator under it.
\* A float is a fixed-point number with four decimals (Unit stands for 1.0,
\* the precision the code rounds its components to); a product or quotient
\* is rounded to the nearest. A history is a list of rows [TrxDate,
\* ItemCode, TotalQuantity] with dates as day numbers. The histories of the
\* model are what _load_data passes on, rows strictly before the reference
\* date, with one purchase date and positive quantities, so that
\* _extract_purchase_gaps returns [] and every trend is 0.0.
\* ---------------------------------------------------------------------

Unit == 10000

Div(x, y) == RoundHalfEven(x * Unit, y)

Mul(x, y) == RoundHalfEven(x * y, Unit)

\* The power series of exp(-z), for z up to 0.5, from the k-th term on.
RECURSIVE ExpSeries(_, _, _)
ExpSeries(z, term, k) ==
  IF term = 0 THEN 0
  ELSE term - ExpSeries(z, RoundHalfEven(term * z, k * Unit), k + 1)

\* np.exp(-y) for y >= 0: the series below 0.5, squares of the half above.
RECURSIVE ExpNeg(_)
ExpNeg(y) ==
  IF 2 * y <= Unit THEN ExpSeries(y, Unit, 1)
  ELSE LET half == ExpNeg(RoundHalfEven(y, 2)) IN Mul(half, half)

RowsOfItem(history, item_code) ==
  SelectSeq(history, LAMBDA row : row.ItemCode = item_code)

Dates(history) == { history[i].TrxDate : i \in DOMAIN history }

MaxDate(history) ==
  CHOOSE d \in Dates(history) : \A e \in Dates(history) : e <= d

TotalQuantity(history) ==
  SumSeq([i \in DOMAIN history |-> history[i].TotalQuantity])

\* _calculate_purchase_pattern: purchase rate (70%) and consistency (30%);
\* with fewer than three purchase dates the consistency is 1.0.
\* A purchase pattern that is not capped at 1.0 and counts rows for dates.
calculate_purchase_pattern_rows(customer_history, item_history) ==
  RoundHalfEven(7 * Len(customer_history) * Unit, 10) + RoundHalfEven(3 * Unit, 10)

calculate_purchase_pattern(customer_history, item_history) ==
  IF customer_history = <<>> THEN 0
  ELSE LET visit_dates == Cardinality(Dates(customer_history))
           purchase_dates == Cardinality(Dates(item_history))
           score == RoundHalfEven(7 * purchase_dates * Unit, 10 * visit_dates)
                      + RoundHalfEven(3 * Unit, 10)
       IN Min(Unit, score)

\* calculate_cycle without purchase gaps: the fallback cycle of 30 days.
calculate_cycle(item_history) == 30

\* _calculate_decay_rate, with the cycle modifier in tenths
calculate_decay_rate(avg_cycle, consistency, purchase_count) ==
  LET cycle_modifier == IF avg_cycle <= 7 /\ 10 * consistency > 7 * Unit THEN 15
                        ELSE IF avg_cycle <= 30 THEN 10
                        ELSE 7
      history_modifier == Min(13 * (Unit \div 10),
                              7 * (Unit \div 10) + purchase_count * (Unit \div 10))
      consistency_modifier == 7 * (Unit \div 10) + RoundHalfEven(6 * consistency, 10)
  IN RoundHalfEven(5 * cycle_modifier * Mul(history_modifier, consistency_modifier),
                   100)

\* _calculate_floor_value
calculate_floor_value(consistency, purchase_count) ==
  Min(2 * (Unit \div 10),
      5 * (Unit \div 100) + RoundHalfEven(Unit - consistency, 10)
        + Min(5 * (Unit \div 100), purchase_count * (Unit \div 100)))

\* _calculate_adaptive_thresholds without pattern information (consistency
\* 0.5, so the consistency factor is 1.0 and the curve 'exponential'): the
\* peak threshold 2.0 * 1.0 * cycle_factor * history_factor, with both
\* factors held in tenths, and the decay parameters.
NoPatternConsistency == Unit \div 2

decay_params(avg_cycle, item_history) ==
  [rate |-> calculate_decay_rate(avg_cycle, NoPatternConsistency,
                                 Len(item_history)),
   floor |-> calculate_floor_value(NoPatternConsistency, Len(item_history)),
   curve_type |-> IF 10 * NoPatternConsistency > 6 * Unit THEN "sigmoid"
                  ELSE "exponential"]

\* _calculate_decayed_score
calculate_decayed_score(cycle_position, peak_threshold, params) ==
  LET excess == cycle_position - peak_threshold
      e == ExpNeg(Mul(params.rate, excess))
      decay_factor == IF params.curve_type = "sigmoid" THEN Div(e, Unit + e)
                      ELSE e
  IN Max(params.floor, decay_factor)

calculate_adaptive_thresholds(avg_cycle, item_history) ==
  LET purchase_count == Len(item_history)
      cycle_factor == IF avg_cycle <= 7 THEN 9
                      ELSE IF avg_cycle <= 14 THEN 10
                      ELSE IF avg_cycle <= 30 THEN 11
                      ELSE 12
      history_factor == Min(12 * Unit, 8 * Unit + (purchase_count * Unit) \div 2)
  IN RoundHalfEven(2 * cycle_factor * history_factor, 100)

\* _calculate_urgency_score: the three-segment curve; the position is capped
\* at 1.0 from above and not from below.
calculate_urgency_score(cycle_position, peak_threshold) ==
  LET normalized == Min(Unit, Div(cycle_position, peak_threshold))
  IN IF 10 * normalized <= 3 * Unit
       THEN Unit \div 10 + RoundHalfEven(2 * normalized, 3)
     ELSE IF 10 * normalized <= 7 * Unit
       THEN RoundHalfEven(3 * Unit, 10)
              + RoundHalfEven(4 * (10 * normalized - 3 * Unit), 40)
     ELSE RoundHalfEven(7 * Unit, 10)
              + RoundHalfEven(3 * (10 * normalized - 7 * Unit), 30)

\* calculate_timing_need raises exactly when the item history is not empty
\* and no date is given; an empty history returns before the date is read.
TimingNeedRaises(item_history, target_date) ==
  item_history # <<>> /\ target_date = None

calculate_timing_need(item_history, target_date) ==
  IF item_history = <<>> THEN Unit \div 2
  ELSE LET days_since == target_date - MaxDate(item_history)
           avg_cycle == calculate_cycle(item_history)
           cycle_position == RoundHalfEven(days_since * Unit, Max(avg_cycle, 1))
           peak_threshold == calculate_adaptive_thresholds(avg_cycle, item_history)
       IN IF cycle_position <= peak_threshold
          THEN calculate_urgency_score(cycle_position, peak_threshold)
          ELSE calculate_decayed_score(cycle_position, peak_threshold,
                                       decay_params(avg_cycle, item_history))

\* calculate_time_weighted_value without purchase gaps: the test
\* "days_ago <= avg_gap if purchase_gaps else 30" is the constant 30, which
\* is true, so every row has weight 1.0 whatever the reference date is, and
\* the weighted average is the mean, which is within its bounds.
calculate_time_weighted_value(history) ==
  IF history = <<>> THEN 0
  ELSE RoundHalfEven(TotalQuantity(history) * Unit, Len(history))

\* calculate_activity_score with the default windows of 7, 30, 90 and 180
\* days, in each of which one purchase a week is expected.
WindowScore(history, reference_date, days) ==
  LET purchases_in_window ==
        Cardinality({ i \in DOMAIN history :
                        history[i].TrxDate > reference_date - days })
  IN Min(Unit, RoundHalfEven(purchases_in_window * 7 * Unit, days))

calculate_activity_score(history, reference_date) ==
  IF history = <<>> THEN 0
  ELSE LET immediate == WindowScore(history, reference_date, 7)
           short == WindowScore(history, reference_date, 30)
           medium == WindowScore(history, reference_date, 90)
           long == WindowScore(history, reference_date, 180)
           activity == RoundHalfEven(4 * immediate + 3 * short
                                       + 2 * medium + long, 10)
           consistent == IF /\ 10 * immediate > 3 * Unit
                            /\ 10 * short > 3 * Unit
                            /\ 10 * medium > 3 * Unit
                         THEN Min(Unit, RoundHalfEven(12 * activity, 10))
                         ELSE activity
       IN IF 10 * immediate > 15 * long
          THEN Min(Unit, RoundHalfEven(11 * consistent, 10))
          ELSE consistent

\* The benchmark _get_market_benchmark computes: the mean of the customers'
\* totals (the model has fewer than 100 customers). The market history is
\* given grouped, {CustomerCode: sum of TotalQuantity}.
MarketMean(total_customers_history) ==
  LET customers == DOMAIN total_customers_history
  IN RoundHalfEven(SumFn(total_customers_history) * Unit,
                   Cardinality(customers))

\* _get_market_benchmark returns the cached value when one is cached for
\* this date, whichever market history it was computed from.
CacheHit(self, target_date) ==
  /\ self.market_benchmark_cache # None
  /\ self.market_benchmark_date = target_date

get_market_benchmark(self, total_customers_history, target_date) ==
  IF CacheHit(self, target_date) THEN self.market_benchmark_cache
  ELSE IF total_customers_history # EmptyMap
    THEN MarketMean(total_customers_history)
  ELSE None

\* _calculate_dynamic_customer_size
calculate_dynamic_customer_size(self, customer_history, total_customers_history, target_date) ==
  LET weighted_customer_total == calculate_time_weighted_value(customer_history)
      benchmark == get_market_benchmark(self, total_customers_history,
                                        target_date)
      weighted_avg_size == IF benchmark = None THEN weighted_customer_total
                           ELSE benchmark
      ratio == Div(weighted_customer_total, Max(weighted_avg_size, Unit))
      cap == 2 * Unit + calculate_activity_score(customer_history, target_date)
  IN IF weighted_customer_total <= 0 THEN 0
     ELSE Div(Min(ratio, cap), cap)

\* _calculate_recent_item_importance with a recency window of 60 days and
\* a trend of 0.0; when the customer bought nothing in the window, the
\* historical share decayed over 90 days.
calculate_recent_item_importance(item_history, customer_history, target_date) ==
  IF item_history = <<>> \/ customer_history = <<>> THEN 0
  ELSE LET Recent(history) ==
             SelectSeq(history, LAMBDA row : row.TrxDate > target_date - 60)
           recent_customer == Recent(customer_history)
           historical_importance ==
             RoundHalfEven(TotalQuantity(item_history) * Unit,
                           Max(TotalQuantity(customer_history), 1))
           days_since_last == target_date - MaxDate(customer_history)
           decay_factor == ExpNeg(RoundHalfEven(days_since_last * Unit, 90))
           recent_importance ==
             IF recent_customer # <<>>
             THEN RoundHalfEven(TotalQuantity(Recent(item_history)) * Unit,
                                Max(TotalQuantity(recent_customer), 1))
             ELSE Mul(historical_importance, decay_factor)
       IN Min(Unit, recent_importance)

\* _calculate_customer_growth_value with a growth trend of 0.0.
calculate_customer_growth_value(customer_history) == Unit \div 2

\* _calculate_dynamic_weights, in hundredths, before they are normalized.
calculate_dynamic_weights(customer_history, item_history) ==
  LET customer_count == Len(customer_history)
      item_count == Len(item_history)
      base == [size |-> 50, importance |-> 25, activity |-> 15, growth |-> 10]
      few == IF customer_count < 5
             THEN [base EXCEPT !.growth = 5, !.activity = 20]
             ELSE base
  IN IF item_count = 0
       THEN [size |-> 60, importance |-> 0, activity |-> 25, growth |-> 15]
     ELSE IF item_count < 3
       THEN [few EXCEPT !.importance = 15, !.size = 55]
     ELSE few

\* _calculate_customer_value raises when the customer has a history and no
\* date is given (in _get_market_benchmark, or in calculate_activity_score).
CustomerValueRaises(customer_history, target_date) ==
  customer_history # <<>> /\ target_date = None

calculate_customer_value(self, customer_history, item_history, total_customers_history, target_date) ==
  IF customer_history = <<>> THEN 0
  ELSE LET weights == calculate_dynamic_weights(customer_history, item_history)
           total == weights.size + weights.importance
                      + weights.activity + weights.growth
           score ==
             weights.size * calculate_dynamic_customer_size(
                              self, customer_history,
                              total_customers_history, target_date)
             + weights.importance * calculate_recent_item_importance(
                              item_history, customer_history, target_date)
             + weights.activity * calculate_activity_score(
                              customer_history, target_date)
             + weights.growth * calculate_customer_growth_value(customer_history)
       IN Min(Unit, RoundHalfEven(score, total))

\* calculate_priority: the weighted sum on the 0..100 scale, rounded to two
\* decimals (the priority is in hundredths of a point); any exception is
\* logged and (0.0, {}) is returned.
calculate_priority(self, item_code, customer_history, total_customers_history, target_date) ==
  LET item_history == RowsOfItem(customer_history, item_code)
  IN IF \/ TimingNeedRaises(item_history, target_date)
        \/ CustomerValueRaises(customer_history, target_date)
     THEN [priority |-> 0, components |-> EmptyMap]
     ELSE LET purchase_pattern ==
                calculate_purchase_pattern(customer_history, item_history)
              timing_need == calculate_timing_need(item_history, target_date)
              customer_value ==
                calculate_customer_value(self, customer_history, item_history,
                                         total_customers_history, target_date)
              priority == RoundHalfEven(45 * purchase_pattern + 35 * timing_need
                                          + 20 * customer_value, 100)
          IN [priority |-> Max(0, Min(100 * 100, priority)),
              components |-> [purchase_pattern |-> purchase_pattern,
                              timing_need |-> timing_need,
                              customer_value |-> customer_value]]

\* calculate_priority reaches the lines of _get_market_benchmark that store
\* the benchmark when the customer has a history, nothing is cached for the
\* date and the market history is not empty.
StoresBenchmark(self, customer_history, total_customers_history, target_date) ==
  /\ customer_history # <<>>
  /\ target_date # None
  /\ ~CacheHit(self, target_date)
  /\ total_customers_history # EmptyMap

\* The inputs: one item, a customer who bought on day 100, three markets,
\* and reference dates from 3 to 300 days after the purchase (or none).
HRow(item_code, quantity) ==
  [TrxDate |-> 100, ItemCode |-> item_code, TotalQuantity |-> quantity]

CustomerHistories ==
  { <<>>, <<HRow("X", 4)>>, <<HRow("Y", 4)>>,
    <<HRow("X", 2), HRow("Y", 6)>> }

MarketHistories ==
  { EmptyMap, [c \in {"c1"} |-> 4],
    [c \in {"c1", "c2"} |-> IF c = "c1" THEN 4 ELSE 12] }

TargetDates == {None, 103, 120, 150, 200, 400}

\* The scorer instance (self) as it is, and as __init__ leaves it.
Scorer ==
  [market_benchmark_cache |-> market_benchmark_cache,
   market_benchmark_date |-> market_benchmark_date]

NewScorer ==
  [market_benchmark_cache |-> None, market_benchmark_date |-> None]

\* One call of calculate_priority on the scorer instance.
CalculatePriority ==
  \E customer_history \in CustomerHistories,
     total_customers_history \in MarketHistories,
     target_date \in TargetDates :
    LET ret == calculate_priority(Scorer, "X", customer_history,
                                  total_customers_history, target_date)
        stores == StoresBenchmark(Scorer, customer_history,
                                  total_customers_history, target_date)
    IN /\ call' = [fn |-> "calculate_priority",
                   customer_history |-> customer_history,
                   total_customers_history |-> total_customers_history,
                   target_date |-> target_date,
                   raised |-> FALSE,
                   priority |-> ret.priority,
                   components |-> ret.components]
       /\ market_benchmark_cache' =
            IF stores THEN MarketMean(total_customers_history)
            ELSE market_benchmark_cache
       /\ market_benchmark_date' =
            IF stores THEN target_date ELSE market_benchmark_date
       /\ UNCHANGED <<sessVars, genVars, srvVars, storeVars>>

\* One direct call of cycle_calculator.calculate_timing_need.
CalculateTimingNeed ==
  \E customer_history \in CustomerHistories, target_date \in TargetDates :
    LET item_history == RowsOfItem(customer_history, "X")
        raises == TimingNeedRaises(item_history, target_date)
    IN /\ call' = [fn |-> "calculate_timing_need",
                   item_history |-> item_history,
                   target_date |-> target_date,
                   raised |-> raises,
                   value |-> IF raises THEN None
                             ELSE calculate_timing_need(item_history, target_date)]
       /\ UNCHANGED <<sessVars, genVars, srvVars, storeVars,
                      market_benchmark_cache, market_benchmark_date>>

NextScorer == CalculatePriority \/ CalculateTimingNeed

ScorerSpec == Init /\ [][NextScorer]_vars

\* What a call of calculate_priority returned.
Returned ==
  [priority |-> call.priority, components |-> call.components]

\* C16: what calculate_priority returns depends on its arguments only: on
\* one scorer instance, whatever calls were made before (also calls with
\* another market history and the same reference date), it returns what a
\* new scorer returns for the same arguments.
C16_DependsOnArgumentsOnly ==
  call.fn = "calculate_priority"
    => Returned = calculate_priority(NewScorer, "X", call.customer_history,
                                     call.total_customers_history,
                                     call.target_date)

\* C17: a scoring call without a reference date fails with an input error
\* and returns no number: calculate_timing_need for any history, empty or
\* not, and calculate_priority, which does not turn the missing date into a
\* default such as priority 0.
C17_MissingDateFails ==
  /\ (call.fn = "calculate_timing_need" /\ call.target_date = None)
       => call.raised
  /\ (call.fn = "calculate_priority" /\ call.target_date = None)
       => call.raised

Scheduled == { journey_customers[k] : k \in DOMAIN journey_customers }

NewCustomers == { c \in Scheduled : IsNewCustomer(customer_df, c) }

RowsReturned == { recommendations[k] : k \in DOMAIN recommendations }

\* C19: for a scheduled customer without purchase history the run produces
\* a row for each of the N (= 5) items with the highest van stock that has
\* stock > 0, with the default quantity 5 capped at the item's stock and the
\* tier NEW_CUSTOMER.
C19_NewCustomerRows ==
  pc # "start" =>
    \A customer \in NewCustomers :
      \A item \in popular_items(van_items) :
        van_items[item] > 0 =>
          \E row \in RowsReturned :
            /\ row.CustomerCode = customer
            /\ row.ItemCode = item
            /\ row.Tier = "NEW_CUSTOMER"
            /\ row.RecommendedQuantity =
                 2 * (Min(2 * NewCustomerQty, van_items[item]) \div 2)

\* C20: a run with an empty van, with an empty journey list, or in which no
\* scheduled customer has purchase history returns an empty result and
\* raises no exception.
C20_EmptyInputsEmptyResult ==
  (/\ pc # "start"
   /\ \/ van_items = EmptyMap
      \/ journey_customers = <<>>
      \/ NewCustomers = Scheduled)
    => pc = "done" /\ recommendations = <<>>

\* ---------------------------------------------------------------------
\* process_recommendations from its call: the check of the target date,
\* the load of _load_data, then the generation. A date is a string, and
\* "None" stands for None.
\* ---------------------------------------------------------------------
TargetDateInputs == {"None", "", "2025-01-01"}

\* A date check that lets every value pass.
DateMissing_never(date) == FALSE

\* "not target_date"
DateMissing(date) == date \in {"None", ""}

\* The orders a list can be supplied in.
Orderings(codes) ==
  IF codes = <<>> THEN {<<>>}
  ELSE { [k \in DOMAIN codes |-> codes[f[k]]] : f \in Permutations(DOMAIN codes) }

\* The histories a load can deliver: those of Histories in which A buys the
\* least or the most.
LoadedHistories ==
  { h \in Histories : h["A"]["X"].avg_qty \in {1, MaxAvgHalves} }

RunInit ==
  /\ SessionInit /\ SrvIdle /\ StoreIdle
  /\ market_benchmark_cache = None
  /\ market_benchmark_date = None
  /\ pc = "call"
  /\ van_items = EmptyMap
  /\ demand_items = <<>>
  /\ journey_customers = <<>>
  /\ customer_df = EmptyMap
  /\ df = <<>>
  /\ recommendations = <<>>
  /\ call \in [fn : {"process_recommendations"},
               target_date : TargetDateInputs,
               loaded_for : {"nothing"}]

\* Lines 30-32 of process_recommendations: a missing date raises ValueError.
ValidateTargetDate ==
  /\ pc = "call"
  /\ pc' = IF DateMissing(call.target_date) THEN "input_error" ELSE "load"
  /\ UNCHANGED <<van_items, demand_items, journey_customers, customer_df, df,
                 recommendations>>
  /\ UNCHANGED <<sessVars, srvVars, scorerVars, storeVars>>

\* _load_data(target_date, route_code): the rows of the given date.
LoadData ==
  /\ pc = "load"
  /\ pc' = "start"
  /\ van_items' \in Vans
  /\ demand_items' \in Orderings(Sorted(DOMAIN van_items', ItemOrder))
  /\ journey_customers' \in Journeys
  /\ customer_df' \in LoadedHistories
  /\ call' = [call EXCEPT !.loaded_for = call.target_date]
  /\ UNCHANGED <<df, recommendations>>
  /\ UNCHANGED <<sessVars, srvVars, storeVars,
                 market_benchmark_cache, market_benchmark_date>>

NextRun == ValidateTargetDate \/ LoadData \/ ProcessRecommendations

RunSpec == RunInit /\ [][NextRun]_vars

\* C21: a generation run without a target date (None or empty) fails with an
\* input error before any data is loaded, and a run never loads the data of
\* another date than the one it was given (no fallback to the current date).
C21_MissingDateIsInputError ==
  /\ (call.fn = "process_recommendations" /\ call.target_date \in {"None", ""})
       => /\ pc \in {"call", "input_error"}
          /\ call.loaded_for = "nothing"
          /\ van_items = EmptyMap
          /\ journey_customers = <<>>
          /\ customer_df = EmptyMap
          /\ recommendations = <<>>
  /\ (call.fn = "process_recommendations" /\ call.loaded_for # "nothing")
       => call.loaded_for = call.target_date

\* A run that was given the empty string ended with the input error.
C21_Witness ==
  /\ call.fn = "process_recommendations"
  /\ call.target_date = ""
  /\ pc = "input_error"

\* The pairs of a scheduled customer with history and an item of that
\* history the van carries with positive stock.
ExistingPairs ==
  { pair \in Scheduled \X Items :
      /\ pair[1] \in DOMAIN customer_df
      /\ pair[2] \in DOMAIN customer_df[pair[1]]
      /\ pair[2] \in DOMAIN van_items
      /\ van_items[pair[2]] > 0 }

RowsOfPair(pair) ==
  { k \in DOMAIN df : /\ df[k].CustomerCode = pair[1]
                      /\ df[k].ItemCode = pair[2] }

\* The candidate rows were built (no new customer raised).
CandidatesBuilt == pc = "done" \/ df # <<>>

FrameOf(customers, supplied) ==
  SortRows(CandidateRows(customer_df, sorted(customers, CustomerOrder),
                         van_items, supplied, 1))

\* C23: the batch of a completed run is the same, rows and row order, for
\* every order in which the scheduled customers and the items with van stock
\* are supplied (the frame handed to the capacity pass is the same for every
\* order, and the pass reads nothing else), and the rows of the batch are
\* sorted by customer ascending, then by priority score descending.
C23_OrderIndependent ==
  pc = "done" =>
    /\ \A customers \in Orderings(journey_customers),
          supplied \in Orderings(demand_items) :
         FrameOf(customers, supplied) = df
    /\ \E orders \in OrderChoices(df) :
         recommendations = apply_van_load_constraints(df, orders)
    /\ \A k \in 1..(Len(recommendations) - 1) :
         ~RowBefore(recommendations[k + 1], recommendations[k])

\* A completed run whose customers and items were supplied out of order and
\* whose batch holds two rows of equal priority for one customer.
C23_Witness ==
  /\ pc = "done"
  /\ journey_customers = <<"C", "A", "B">>
  /\ demand_items = <<"Y", "X">>
  /\ \E j, k \in DOMAIN recommendations :
       /\ j < k
       /\ recommendations[j].CustomerCode = recommendations[k].CustomerCode
       /\ recommendations[j].PriorityScore = recommendations[k].PriorityScore
       /\ recommendations[j].ItemCode = "X"
       /\ recommendations[k].ItemCode = "Y"

\* ---------------------------------------------------------------------
\* The stored batches: tbl_recommended_orders behind the routes
\* pre-generate-daily, get-recommendations-data and initialize-session.
\* A record of the table stands for the rows one save inserted: they share
\* trx_date, route_code and generated_at.  "None" stands for None.
\* ---------------------------------------------------------------------
MaxRuns == 2

\* The routes of the loaded demand, in the order of its rows.
DataRoutes == <<"1004", "1005">>

\* The dates the loaded data has demand and a journey plan for.
DataDates == {"2025-10-08", "2025-10-09"}

RouteInputs == {"1004", "1005", "1006", "All"}

DateInputs == DataDates \cup {"2025-10-10", "10/08/2025"}

RouteFilters ==
  {<<>>, <<"1004">>, <<"1005">>, <<"1006">>, <<"All">>, <<"1004", "1005">>}

\* datetime.strptime(date, '%Y-%m-%d') succeeds.
IsIsoDate(date) == date \in DataDates \cup {"2025-10-10"}

\* The date of get-recommendations-data, which also reads MM/DD/YYYY.
NormalizedDate(date) ==
  IF IsIsoDate(date) THEN date
  ELSE IF date = "10/08/2025" THEN "2025-10-08"
  ELSE "invalid"

\* _load_data: int(route_code) unless the code is None or 'All'; a code that
\* is no number gives no filter.
route_filter(route_code) ==
  IF route_code \in {"None", "All"} THEN "None"
  ELSE IF route_code \in {"1004", "1005", "1006"} THEN route_code
  ELSE "None"

\* The RouteCode column of the demand rows get_demand_data(route_filter)
\* returns for a date.
DemandRoutes(date, route_code) ==
  IF date \notin DataDates THEN <<>>
  ELSE IF route_filter(route_code) = "None" THEN DataRoutes
  ELSE SelectSeq(DataRoutes, LAMBDA r : r = route_filter(route_code))

\* The rows a run generates: every row carries the RouteCode of the first
\* demand row (actual_route_code).
StoredRows == << Row("c1", "X", MaxQty, "CONSIDER") >>

\* process_recommendations(target_date, route_code) as the routes see it:
\* an empty frame, or a batch.
GenerateBatch(date, route_code) ==
  LET demand == DemandRoutes(date, route_code)
  IN IF demand = <<>> THEN [empty |-> TRUE]
     ELSE [empty |-> FALSE, TrxDate |-> date, RouteCode |-> demand[1],
           rows |-> StoredRows]

\* save_recommendations: a bulk INSERT of the rows, with the RouteCode of the
\* rows and generated_at = now; the route_code argument is only logged.
save_recommendations(table, batch, date, route_code) ==
  table \o << [trx_date |-> batch.TrxDate, route_code |-> batch.RouteCode,
               generated_at |-> now, rows |-> batch.rows] >>

\* check_exists(date, route_code)
check_exists(date, route_code) ==
  \E k \in DOMAIN tbl_recommended_orders :
       /\ tbl_recommended_orders[k].trx_date = date
       /\ tbl_recommended_orders[k].route_code = route_code

\* get_recommendations(date, route_code): the stored records of the date,
\* of one route or (None) of every route.
get_recommendations(date, route_code) ==
  SelectSeq(tbl_recommended_orders, LAMBDA r :
    /\ r.trx_date = date
    /\ (route_code = "None" \/ r.route_code = route_code))

RECURSIVE RowsOfRecords(_)
RowsOfRecords(records) ==
  IF records = <<>> THEN <<>>
  ELSE Head(records).rows \o RowsOfRecords(Tail(records))

StoreInit ==
  /\ SessionInit /\ GenIdle /\ SrvIdle /\ StoreIdle
  /\ market_benchmark_cache = None
  /\ market_benchmark_date = None
  /\ call = [fn |-> "none"]

Saved(batch, date, route_code) ==
  /\ now < MaxRuns
  /\ tbl_recommended_orders' =
       save_recommendations(tbl_recommended_orders, batch, date, route_code)
  /\ now' = now + 1

\* pre_generate_daily_recommendations(date, route_code)
PreGenerate(date, route_code) ==
  LET batch == GenerateBatch(date, route_code)
      Answer(action) == call' = [fn |-> "pre_generate", date |-> date,
                                 route |-> route_code, response |-> action]
  IN /\ IF ~IsIsoDate(date)
        THEN Answer("400") /\ UNCHANGED storeVars
        ELSE IF check_exists(date, route_code)
        THEN Answer("skipped") /\ UNCHANGED storeVars
        ELSE IF batch.empty
        THEN Answer("404") /\ UNCHANGED storeVars
        ELSE Answer("generated") /\ Saved(batch, date, route_code)
     /\ UNCHANGED <<sessVars, genVars, srvVars,
                    market_benchmark_cache, market_benchmark_date>>

\* get_recommended_order_data(filters): the stored rows of the date (of the
\* single selected route), or a run over every route, saved per RouteCode.
GetRecommendationsData(date, route_codes) ==
  LET target == NormalizedDate(date)
      single_route == IF Len(route_codes) = 1 /\ route_codes[1] # "All"
                      THEN route_codes[1] ELSE "None"
      batch == GenerateBatch(target, "None")
      Answer(source) == call' = [fn |-> "get_recommendations_data",
                                 date |-> date, route |-> single_route,
                                 response |-> source]
  IN /\ IF target = "invalid"
        THEN Answer("400") /\ UNCHANGED storeVars
        ELSE IF get_recommendations(target, single_route) # <<>>
        THEN Answer("database") /\ UNCHANGED storeVars
        ELSE IF batch.empty
        THEN Answer("500") /\ UNCHANGED storeVars
        ELSE Answer("generated") /\ Saved(batch, target, batch.RouteCode)
     /\ UNCHANGED <<sessVars, genVars, srvVars,
                    market_benchmark_cache, market_benchmark_date>>

\* initialize_dynamic_session(filters) with its storage: the session of the
\* key is replaced, then the stored rows are loaded or, if there are none,
\* generated and saved.  The session variables hold the object this request
\* created.
InitializeSessionStored(date, route_code) ==
  LET key == route_code \o "_" \o date
      stored == get_recommendations(date, IF route_code = "All" THEN "None"
                                          ELSE route_code)
      batch == GenerateBatch(date, route_code)
      rec_df == IF stored # <<>> THEN RowsOfRecords(stored) ELSE batch.rows
      st == InitRows([cr |-> EmptyMap, order |-> <<>>, van |-> EmptyMap],
                     rec_df, 1)
      Answer(response) == call' = [fn |-> "initialize_session", date |-> date,
                                   route |-> route_code, response |-> response]
      Empty(response) ==
        /\ Answer(response)
        /\ customer_recommendations' = EmptyMap
        /\ custOrder' = <<>>
        /\ van_inventory' = EmptyMap
        /\ adjustments' = EmptyMap
        /\ result' = [kind |-> "http_error"]
        /\ UNCHANGED storeVars
  IN /\ objects < MaxObjects
     /\ objects' = objects + 1
     /\ active_sessions' =
          [k \in DOMAIN active_sessions \cup {key} |->
             IF k = key THEN objects + 1 ELSE active_sessions[k]]
     /\ visited_customers' = {}
     /\ redistribution_log' = <<>>
     /\ IF ~IsIsoDate(date) THEN Empty("400")
        ELSE IF stored = <<>> /\ batch.empty THEN Empty("404")
        ELSE /\ Answer("initialized")
             /\ customer_recommendations' = st.cr
             /\ custOrder' = st.order
             /\ van_inventory' = st.van
             /\ adjustments' = [c \in DOMAIN st.cr |-> EmptyMap]
             /\ result' = [kind |-> "initialized", value |-> TRUE]
             /\ IF stored # <<>> THEN UNCHANGED storeVars
                ELSE Saved(batch, date, route_code)
     /\ UNCHANGED <<genVars, requests,
                    market_benchmark_cache, market_benchmark_date>>

NextStore ==
  \/ \E date \in DateInputs, route_code \in RouteInputs :
       PreGenerate(date, route_code)
  \/ \E date \in DateInputs, route_codes \in RouteFilters :
       GetRecommendationsData(date, route_codes)
  \/ \E date \in DateInputs, route_code \in RouteInputs :
       InitializeSessionStored(date, route_code)

StoreSpec == StoreInit /\ [][NextStore]_vars

\* C24: after any sequence of pre-generate, get-recommendations-data and
\* initialize-session requests, the stored table never holds rows of two
\* generation runs (two values of generated_at) for the same (date, route).
C24_OneRunPerDateRoute ==
  \A j, k \in DOMAIN tbl_recommended_orders :
    (/\ tbl_recommended_orders[j].trx_date = tbl_recommended_orders[k].trx_date
     /\ tbl_recommended_orders[j].route_code
          = tbl_recommended_orders[k].route_code)
      => tbl_recommended_orders[j].generated_at
           = tbl_recommended_orders[k].generated_at

\* ---------------------------------------------------------------------
\* CycleCalculator: calculate_cycle and its outlier removal.  A history is
\* the list of its TrxDate values, counted in half days (20 is the morning
\* of day 10, 21 its afternoon); gaps are whole days.  Cycle lengths and
\* confidences are in units of 1/Unit.
\* ---------------------------------------------------------------------
MaxHistory == 3

MaxGaps == 8

Timestamps == {20, 21, 22, 80}

GapValues == {1, 10, 11, 19}

\* Insertion of a number into an ascending list, and sorted(list).
InsertAscending(x, s) ==
  LET k == Cardinality({ j \in DOMAIN s : s[j] <= x })
  IN SubSeq(s, 1, k) \o <<x>> \o SubSeq(s, k + 1, Len(s))

RECURSIVE SortAscending(_)
SortAscending(s) ==
  IF s = <<>> THEN <<>> ELSE InsertAscending(Head(s), SortAscending(Tail(s)))

\* Gaps that keep the pairs of timestamps less than a day apart.
extract_purchase_gaps_with_zero(item_history) ==
  LET sorted_dates == SortAscending(Unique(item_history))
  IN IF Len(item_history) < 2 \/ Len(sorted_dates) < 2 THEN <<>>
     ELSE [i \in 1..(Len(sorted_dates) - 1) |->
             (sorted_dates[i + 1] - sorted_dates[i]) \div 2]

\* _extract_purchase_gaps: the positive day differences of the sorted
\* unique timestamps ((d2 - d1).days cuts a difference to whole days).
extract_purchase_gaps(item_history) ==
  LET sorted_dates == SortAscending(Unique(item_history))
      all_gaps == [i \in 1..(Len(sorted_dates) - 1) |->
                     (sorted_dates[i + 1] - sorted_dates[i]) \div 2]
  IN IF Len(item_history) < 2 \/ Len(sorted_dates) < 2 THEN <<>>
     ELSE SelectSeq(all_gaps, LAMBDA gap : gap > 0)

\* np.percentile(gaps, 25 * k) with linear interpolation, times four.
Percentile4(sorted_gaps, k) ==
  LET pos4 == k * (Len(sorted_gaps) - 1)
      lo == pos4 \div 4 + 1
      rem == pos4 % 4
  IN IF rem = 0 THEN 4 * sorted_gaps[lo]
     ELSE 4 * sorted_gaps[lo] + rem * (sorted_gaps[lo + 1] - sorted_gaps[lo])

\* np.median of a non-empty list, times two.
Median2(values) ==
  LET s == SortAscending(values)
      n == Len(s)
  IN IF n % 2 = 1 THEN 2 * s[(n + 1) \div 2]
     ELSE s[n \div 2] + s[n \div 2 + 1]

\* A safety check that accepts a result keeping half of the gaps.
KeepsEnough_half(clean_gaps, gaps) == 2 * Len(clean_gaps) >= Len(gaps)

\* len(clean_gaps) >= len(gaps) * 0.6
KeepsEnough(clean_gaps, gaps) == 10 * Len(clean_gaps) >= 6 * Len(gaps)

\* Method 1: the gaps within [max(1, q1 - m * iqr), q3 + m * iqr], with
\* m = min(2.0, max(1.2, 1.5 - 0.3 * iqr / median)) = num / den.
IqrCleanGaps(gaps) ==
  LET s == SortAscending(gaps)
      q1 == Percentile4(s, 1)
      q3 == Percentile4(s, 3)
      iqr == q3 - q1
      med == Median2(gaps)
      num == IF iqr <= 2 * med THEN 30 * med - 3 * iqr ELSE 6
      den == IF iqr <= 2 * med THEN 20 * med ELSE 5
  IN SelectSeq(gaps, LAMBDA g :
       /\ g >= 1
       /\ 4 * den * g >= q1 * den - num * iqr
       /\ 4 * den * g <= q3 * den + num * iqr)

\* q3 - q1 > 0
ValidIqr(gaps) ==
  Percentile4(SortAscending(gaps), 3) > Percentile4(SortAscending(gaps), 1)

\* Method 2: the gaps with |g - median| <= t * mad, where
\* t = min(4.0, max(2.0, 3.0 - cv)) and cv = std / mean.  With S1 the sum
\* and S2 the sum of squares, cv^2 = (n * S2 - S1^2) / S1^2; deviations are
\* in half days (dev2) and mad in quarter days (mad4).
MadOf(gaps) ==
  LET med == Median2(gaps)
      Dev2(g) == IF 2 * g >= med THEN 2 * g - med ELSE med - 2 * g
  IN Median2([k \in DOMAIN gaps |-> Dev2(gaps[k])])

MadCleanGaps(gaps) ==
  LET med == Median2(gaps)
      Dev2(g) == IF 2 * g >= med THEN 2 * g - med ELSE med - 2 * g
      mad4 == MadOf(gaps)
      n == Len(gaps)
      S1 == SumSeq(gaps)
      S2 == SumSeq([k \in DOMAIN gaps |-> gaps[k] * gaps[k]])
      var == n * S2 - S1 * S1
      Within(g) ==
        IF var >= S1 * S1 THEN Dev2(g) <= mad4
        ELSE /\ 3 * mad4 - 2 * Dev2(g) >= 0
             /\ var * mad4 * mad4
                  <= S1 * S1 * (3 * mad4 - 2 * Dev2(g)) * (3 * mad4 - 2 * Dev2(g))
  IN SelectSeq(gaps, Within)

\* _remove_outliers_dynamically, with the method whose result is returned.
remove_outliers_dynamically(gaps) ==
  IF Len(gaps) < 3 THEN [method |-> "raw", gaps |-> gaps]
  ELSE IF ValidIqr(gaps) /\ KeepsEnough(IqrCleanGaps(gaps), gaps)
  THEN [method |-> "iqr", gaps |-> IqrCleanGaps(gaps)]
  ELSE IF MadOf(gaps) > 0
  THEN (IF MadCleanGaps(gaps) # <<>>
        THEN [method |-> "mad", gaps |-> MadCleanGaps(gaps)]
        ELSE [method |-> "raw", gaps |-> gaps])
  ELSE [method |-> "raw", gaps |-> gaps]

\* _analyze_purchase_pattern and _calculate_adaptive_cycle for one or two
\* gaps: the base cycle is the median or the mean, which are equal, and the
\* confidence is 0.3 + 0.1 * len(gaps).  Longer lists go through the recency
\* weighting, which is outside this model.
calculate_adaptive_cycle(gaps) ==
  IF Len(gaps) <= 2
  THEN [cycle_days |-> (SumSeq(gaps) * Unit) \div Len(gaps),
        confidence |-> (3 * Unit) \div 10 + Len(gaps) * (Unit \div 10)]
  ELSE [weighted |-> TRUE]

\* _get_fallback_cycle
FallbackCycle == 30

\* CycleCalculator.calculate_cycle
estimate_cycle(item_history) ==
  LET gaps == extract_purchase_gaps(item_history)
      clean_gaps == remove_outliers_dynamically(gaps).gaps
  IN IF item_history = <<>> \/ gaps = <<>>
     THEN [cycle_days |-> FallbackCycle * Unit, confidence |-> 0]
     ELSE IF clean_gaps = <<>>
     THEN [cycle_days |-> (Median2(gaps) * Unit) \div 2, confidence |-> Unit \div 10]
     ELSE calculate_adaptive_cycle(clean_gaps)

\* The histories and gap lists of the calls.
CycleHistories ==
  UNION { [1..n -> Timestamps] : n \in 0..MaxHistory }

GapLists ==
  { s \in UNION { [1..n -> GapValues] : n \in 1..MaxGaps } :
      \/ Len(s) <= 3
      \/ \A k \in 1..(Len(s) - 1) : s[k] <= s[k + 1] }

CycleCalls ==
  { [fn |-> "calculate_cycle", input |-> h, returned |-> FALSE, value |-> <<>>] :
      h \in CycleHistories } \cup
  { [fn |-> "remove_outliers", input |-> g, returned |-> FALSE, value |-> <<>>] :
      g \in GapLists }

CycleInit ==
  /\ SessionInit /\ GenIdle /\ SrvIdle /\ StoreIdle
  /\ market_benchmark_cache = None
  /\ market_benchmark_date = None
  /\ call \in CycleCalls

CalculateCycle ==
  /\ call.fn = "calculate_cycle"
  /\ ~call.returned
  /\ call' = [call EXCEPT !.returned = TRUE,
                          !.value = estimate_cycle(call.input)]
  /\ UNCHANGED <<sessVars, genVars, srvVars, storeVars,
                 market_benchmark_cache, market_benchmark_date>>

RemoveOutliers ==
  /\ call.fn = "remove_outliers"
  /\ ~call.returned
  /\ call' = [call EXCEPT !.returned = TRUE,
                          !.value = remove_outliers_dynamically(call.input)]
  /\ UNCHANGED <<sessVars, genVars, srvVars, storeVars,
                 market_benchmark_cache, market_benchmark_date>>

NextCycle == CalculateCycle \/ RemoveOutliers

CycleSpec == CycleInit /\ [][NextCycle]_vars

\* The distinct purchase dates of a history.
PurchaseDates(item_history) ==
  { item_history[k] \div 2 : k \in DOMAIN item_history }

\* C25: for every history with fewer than 2 distinct purchase dates (empty,
\* one purchase, or several purchases on one date) calculate_cycle returns
\* cycle_days = 30.0 and confidence = 0.0.
C25_FallbackCycle ==
  (/\ call.fn = "calculate_cycle"
   /\ call.returned
   /\ Cardinality(PurchaseDates(call.input)) < 2)
    => call.value = [cycle_days |-> 30 * Unit, confidence |-> 0]

\* Two purchases on one date, in the morning and in the afternoon.
C25_Witness ==
  /\ call.fn = "calculate_cycle"
  /\ call.returned
  /\ call.input = <<20, 21>>
  /\ call.value.confidence = 0

\* How often a value occurs in a list.
Occurrences(values, v) == Cardinality({ k \in DOMAIN values : values[k] = v })

\* C26: the result of the IQR-based removal is returned only when it keeps at
\* least 60% of the gaps; when it would discard more than 40%, the returned
\* set is the result of the MAD-based removal or the raw gaps; and in every
\* case the returned set is a non-empty subset of the input gaps.
C26_OutlierRemoval ==
  (call.fn = "remove_outliers" /\ call.returned) =>
    LET gaps == call.input
        cleaned == call.value
    IN /\ cleaned.method = "iqr" =>
            /\ 10 * Len(cleaned.gaps) >= 6 * Len(gaps)
            /\ cleaned.gaps = IqrCleanGaps(gaps)
       /\ (Len(gaps) >= 3 /\ 10 * Len(IqrCleanGaps(gaps)) < 6 * Len(gaps)) =>
            \/ cleaned.method = "mad" /\ cleaned.gaps = MadCleanGaps(gaps)
            \/ cleaned.method = "raw" /\ cleaned.gaps = gaps
       /\ cleaned.gaps # <<>>
       /\ \A v \in GapValues :
            Occurrences(cleaned.gaps, v) <= Occurrences(gaps, v)

\* Eight gaps of which the IQR bounds keep four: the MAD result is returned.
C26_Witness ==
  /\ call.fn = "remove_outliers"
  /\ call.returned
  /\ call.input = <<1, 1, 10, 10, 10, 10, 19, 19>>
  /\ Len(IqrCleanGaps(call.input)) = 4
  /\ call.value.method = "mad"

\* The rank of a tier in the recipient order: tiers without a rank count 0.
RankOf(tier) == IF tier \in NamedTiers THEN TierRank(tier) ELSE 0

PositionOf(c) == CHOOSE k \in 1..Len(custOrder) : custOrder[k] = c

\* Customer a is served before customer b for the item: a larger key
\* (rank, probability, urgency), or the same key and an earlier place in the
\* batch.
Precedes(a, b, item_code) ==
  LET ra == ItemOf(customer_recommendations[a], item_code)
      rb == ItemOf(customer_recommendations[b], item_code)
      ka == <<RankOf(ra.tier), ra.probability, ra.urgency_score>>
      kb == <<RankOf(rb.tier), rb.probability, rb.urgency_score>>
  IN \/ ka[1] > kb[1]
     \/ ka[1] = kb[1] /\ ka[2] > kb[2]
     \/ ka[1] = kb[1] /\ ka[2] = kb[2] /\ ka[3] > kb[3]
     \/ ka = kb /\ PositionOf(a) < PositionOf(b)

\* The first five eligible recipients of the item in the step's pass.
FirstFive(item_code) ==
  { b \in EligibleSet(item_code) :
      Cardinality({ a \in EligibleSet(item_code) : Precedes(a, b, item_code) })
        < 5 }

CapOf(c, item_code) ==
  Max(1, ItemOf(customer_recommendations[c], item_code).recommended_quantity \div 2)

C27_Step ==
  VisitSucceeded =>
    \A u \in 1..Len(result'.unsold_items) :
      LET item_code == result'.unsold_items[u].item_code
          unsold == result'.unsold_items[u].quantity
          details == result'.redistribution.details
          total == SumFn([c \in EligibleSet(item_code) |-> Delta(c, item_code)])
          caps == SumFn([c \in FirstFive(item_code) |-> CapOf(c, item_code)])
      IN /\ total <= unsold
         /\ \A d \in 1..Len(details) : details[d].quantity >= 1
         /\ \A c \in DOMAIN adjustments : Delta(c, item_code) >= 0
         /\ total = Min(unsold, caps)

\* C27: in a single redistribution pass the deltas handed out for an item
\* sum to at most the item's unsold quantity, every delta is at least 1, and
\* the sum equals min(unsold quantity, total of the caps of the first 5
\* eligible recipients).
C27_DeltasBounded == [][C27_Step]_vars

\* A pass with six eligible customers that placed the caps of five of them
\* and left units unplaced; the smallest delta was 1.
C27_Witness ==
  /\ result.kind = "visit"
  /\ Len(result.unsold_items) = 1
  /\ Len(result.redistribution.details) = 5
  /\ Placed(result.unsold_items[1]) < result.unsold_items[1].quantity
  /\ \E d \in 1..5 : result.redistribution.details[d].quantity = 1
  /\ Cardinality({ c \in DOMAIN customer_recommendations :
                     c \notin visited_customers }) >= 6

\* Every visited customer bought at most its adjusted recommendation of
\* each item it was recommended.
SoldWithinRecommendation ==
  \A c \in visited_customers :
    \A k \in 1..Len(customer_recommendations[c].items) :
      LET item_rec == customer_recommendations[c].items[k]
      IN Get(customer_recommendations[c].actual_sales, item_rec.item_code, 0)
           <= RecommendedQty(item_rec, adjustments[c])

\* No visited customer bought an item outside its recommendation set.
SoldOnlyRecommended ==
  \A c \in visited_customers :
    \A i \in DOMAIN customer_recommendations[c].actual_sales :
      \/ HasItem(customer_recommendations[c], i)
      \/ customer_recommendations[c].actual_sales[i] <= 0

\* The units of an item sold to visited customers plus the adjusted
\* recommendations of the unvisited ones.
Committed(item_code) ==
  SumFn([c \in DOMAIN customer_recommendations |->
    IF c \in visited_customers
    THEN Get(customer_recommendations[c].actual_sales, item_code, 0)
    ELSE IF HasItem(customer_recommendations[c], item_code)
    THEN RecommendedQty(ItemOf(customer_recommendations[c], item_code),
                        adjustments[c])
    ELSE 0])

Conserved ==
  \A i \in Items : Committed(i) <= Get(van_inventory, i, 0)

\* C28 as stated: if every visited customer bought at most its adjusted
\* recommendation of each recommended item, then for every item the units
\* sold to visited customers plus the adjusted recommendations of the
\* unvisited customers are at most the item's total in van_inventory.
C28_AsStated == SoldWithinRecommendation => Conserved

C28_VanStep ==
  result'.kind \in {"visit", "error"} => UNCHANGED van_inventory

\* C28, amended: the same bound under the further condition that no visited
\* customer bought an item it was not recommended; process_visit never
\* changes van_inventory.
C28_StockConserved ==
  /\ []((SoldWithinRecommendation /\ SoldOnlyRecommended) => Conserved)
  /\ [][C28_VanStep]_vars

\* Two customers were visited within their recommendations, units were sold
\* and unsold units were handed to an unvisited customer.
C28_Witness ==
  /\ Len(redistribution_log) = 2
  /\ SoldWithinRecommendation
  /\ SoldOnlyRecommended
  /\ \E c \in visited_customers :
       \E i \in Items : Get(customer_recommendations[c].actual_sales, i, 0) > 0
  /\ \E c \in DOMAIN adjustments \ visited_customers :
       \E i \in DOMAIN adjustments[c] : adjustments[c][i] > 0

\* ---------------------------------------------------------------------
\* The session over batches in the stored format: the columns of
\* tbl_recommended_orders, without ProbabilityPercent and UrgencyScore.
\* ---------------------------------------------------------------------
\* A seller that leaves at least two units unsold and three recipients with
\* a cap of one unit each.
BatchesStored ==
  { << Row("c1", "X", MaxSold + 2, "CONSIDER"), Row("c2", "X", 1, t2),
       Row("c3", "X", 2, t3), Row("c4", "X", 1, t4) >> :
      t2 \in {"NEW_CUSTOMER", "MONITOR"},
      t3 \in {"MUST_STOCK", "MONITOR"},
      t4 \in {"EXCLUDE"} }

InitializeStored ==
  /\ customer_recommendations = EmptyMap
  /\ \E recommendations_df \in BatchesStored :
       initialize_from_recommendations(recommendations_df)
  /\ UNCHANGED <<genVars, srvVars, scorerVars, storeVars>>

NextBatch == InitializeStored \/ ProcessVisit

BatchSpec == Init /\ [][NextBatch]_vars

\* Every item of the session has probability 0.5 (50 percent) and urgency
\* 0.5 (5 tenths).
C29_Defaults ==
  \A c \in DOMAIN customer_recommendations :
    \A k \in 1..Len(customer_recommendations[c].items) :
      /\ customer_recommendations[c].items[k].probability = 50
      /\ customer_recommendations[c].items[k].urgency_score = 5

\* Customer a comes before customer b by tier rank, ties going to the one
\* that is earlier in the batch; tiers outside MUST_STOCK..MONITOR rank 0.
BeforeByTier(a, b, item_code) ==
  LET ra == RankOf(ItemOf(customer_recommendations[a], item_code).tier)
      rb == RankOf(ItemOf(customer_recommendations[b], item_code).tier)
  IN \/ ra > rb
     \/ ra = rb /\ PositionOf(a) < PositionOf(b)

C29_Step ==
  VisitSucceeded =>
    \A u \in 1..Len(result'.unsold_items) :
      LET item_code == result'.unsold_items[u].item_code
          E == EligibleSet(item_code)
          total == SumFn([c \in E |-> Delta(c, item_code)])
      IN /\ \A b \in E : Delta(b, item_code) > 0 =>
              \A a \in E : BeforeByTier(a, b, item_code) =>
                             Delta(a, item_code) = CapOf(a, item_code)
         /\ total < result'.unsold_items[u].quantity =>
              \A b \in E : Delta(b, item_code) = CapOf(b, item_code)

\* C29: a session initialized from a stored batch (no ProbabilityPercent or
\* UrgencyScore column) gives every item probability 0.5 and urgency 0.5, so
\* recipients are served in the order of tier rank alone, ties going to the
\* customer that appears first in the batch; tiers outside
\* MUST_STOCK..MONITOR (NEW_CUSTOMER, EXCLUDE) rank 0, below MONITOR, and
\* their customers remain eligible recipients.
C29_TierRankAlone == []C29_Defaults /\ [][C29_Step]_vars

\* c1 left two units: c3 (MONITOR) and c2 (NEW_CUSTOMER, the first of the two
\* customers of rank 0) received one each, c4 (EXCLUDE) none.
C29_Witness ==
  /\ result.kind = "visit"
  /\ result.customer_code = "c1"
  /\ ItemOf(customer_recommendations["c2"], "X").tier = "NEW_CUSTOMER"
  /\ ItemOf(customer_recommendations["c3"], "X").tier = "MONITOR"
  /\ ItemOf(customer_recommendations["c4"], "X").tier = "EXCLUDE"
  /\ Len(result.redistribution.details) = 2
  /\ result.redistribution.details[1].customer_code = "c3"
  /\ result.redistribution.details[2].customer_code = "c2"
  /\ Get(adjustments["c4"], "X", 0) = 0


\* ---------------------------------------------------------------------
\* The session registered under a key across initialize-session and
\* process-visit requests (ServerSpec).
\* ---------------------------------------------------------------------

\* The step of an initialize-session handler: it answers (with the new
\* session or with an HTTP error) and touches no visit request.
InitializeAnswered ==
  /\ requests' = requests
  /\ result'.kind \in {"initialized", "http_error"}

\* Nothing of a used session: no visited customer, no adjustment, no log
\* entry, no recorded sale.
NothingRemains ==
  /\ visited_customers' = {}
  /\ redistribution_log' = <<>>
  /\ \A c \in DOMAIN adjustments' : adjustments'[c] = EmptyMap
  /\ \A c \in DOMAIN customer_recommendations' :
       /\ ~customer_recommendations'[c].visited
       /\ customer_recommendations'[c].actual_sales = EmptyMap

C30_Step ==
  /\ InitializeAnswered =>
       /\ SessionKey \in DOMAIN active_sessions'
       /\ SessionKey \in DOMAIN active_sessions =>
            active_sessions'[SessionKey] # active_sessions[SessionKey]
       /\ NothingRemains
       /\ result'.kind = "http_error" => customer_recommendations' = EmptyMap
  /\ \A client \in Clients :
       (/\ Pending(client)
        /\ ~Pending(client)'
        /\ Creates \/ customer_recommendations = EmptyMap) =>
         /\ SessionKey \in DOMAIN active_sessions'
         /\ requests'[client].session = active_sessions'[SessionKey]
         /\ customer_recommendations' = EmptyMap
         /\ NothingRemains
         /\ requests'[client].response = "not_found"

\* C30: an initialize-session request replaces the session registered for
\* its key before it parses the date or loads recommendations, so after the
\* request, successful or failed, the key holds a new session object with
\* no visit, adjustment or log entry of the earlier one; a process-visit
\* request for a key without a session registers an empty session and is
\* answered with the customer-not-found error.
C30_EarlierSessionDiscarded == [][C30_Step]_vars

\* A session was initialized (object 1) and a visit succeeded on it; an
\* initialize-session request then failed and left the empty object 2 under
\* the key, with nothing of the visit; the next visit request was answered
\* not-found by that empty session.
C30_Witness ==
  /\ Succeeded(1)
  /\ requests[1].session = 1
  /\ 2 \in DOMAIN requests
  /\ requests[2].response = "not_found"
  /\ requests[2].session = 2
  /\ requests[2].customer_code = requests[1].customer_code
  /\ active_sessions[SessionKey] = 2
  /\ customer_recommendations = EmptyMap
  /\ visited_customers = {}
  /\ redistribution_log = <<>>

====
